---- MODULE Spec2Model ----
(***************************************************************************)
(* A model of the "Take It Out Back" process manager:                      *)
(*   - ProcessPoller   (polling state machine, snapshot publication)       *)
(*   - processModel    (buildSnapshot, diffSnapshots)                      *)
(*   - ProcessController (kill operations, subtree closure, signalling)    *)
(*   - ProcessTreeProvider (filtering, path trie, chain collapsing)        *)
(*   - the command handlers of activate() that tie them together           *)
(* The poller, the controller and the tree provider share no mutable       *)
(* state, so each has its own specification (SpecPoller, SpecCtl,          *)
(* SpecTree) over its own variables; SpecHost runs the poller and the      *)
(* controller together as the kill command handlers do; SpecView walks the *)
(* tree the provider serves; SpecDiff and SpecEtime apply diffSnapshots    *)
(* and parseEtime to inputs drawn from bounded sets.                       *)
(***************************************************************************)
EXTENDS Integers, Sequences, FiniteSets, TLC

VARIABLES
    \* ---- ProcessPoller fields
    intervalHandle,     \* <<>> (undefined) or <<ms>>: the handle of the timer armed by start()
    timers,             \* the host's armed repeating timers: period -> how many are armed
    polling,            \* the in-flight guard
    paused,             \* the pause flag
    currentSnapshot,    \* _currentSnapshot: Undefined or a snapshot record
    intervalMs,         \* the configured period
    \* ---- the poller's environment and observations
    inflight,           \* execFile calls started whose callback has not run yet
    emitted,            \* what the last completed cycle emitted, in order
    op,                 \* the operation that made the last step
    ret,                \* the value togglePause() returned last
    outcome,            \* how the last completed listing call ended
    pollRes,            \* what poll() did in the last step: none (not called), started, skipped
    \* ---- ProcessController: one kill operation at a time
    snap,               \* the snapshot handed to the operation
    kop,                \* the operation in progress: name, target, confirm flag
    pc,                 \* where the operation stands
    stack,              \* getDescendants: the work stack
    result,             \* getDescendants: the descendants collected so far
    todo,               \* terminateSubtree: pids still to signal, in order
    allOk,              \* terminateSubtree: the aggregate result
    sent,               \* every process.kill call of the operation, in order
    last,               \* the last sendSignal / sendSignalToGroup call and what it did
    failed,             \* the kill arguments whose call failed other than with ESRCH
    prompts,            \* confirmation prompts shown by the operation
    answer,             \* the answer to the confirmation prompt
    kret,               \* the operation's return value (<<>> while it has not returned)
    \* ---- ProcessTreeProvider fields
    treeSnapshot,       \* snapshot: Undefined or the snapshot of the last update()
    trie,               \* Undefined or the root TrieNode
    showSystemProcesses,
    showOtherUsers,
    currentUser,
    treeOp,             \* the provider method that made the last step
    shown,              \* the last getChildren call: its element and what it returned
    \* ---- the pure functions of processModel, applied to one input
    fn,                 \* the function applied ("none" before it is)
    input,              \* its arguments
    output              \* its result

pollerVars == <<intervalHandle, timers, polling, paused, currentSnapshot,
                intervalMs, inflight, emitted, op, ret, outcome, pollRes>>
ctlVars    == <<snap, kop, pc, stack, result, todo, allOk, sent, last, failed,
                prompts, answer, kret>>
treeVars   == <<treeSnapshot, trie, showSystemProcesses, showOtherUsers,
                currentUser, treeOp, shown>>
pureVars   == <<fn, input, output>>
vars       == <<pollerVars, ctlVars, treeVars, pureVars>>

\* ------------------------------------------------------------------ bounds

\* The largest pid of a controller snapshot (pids 0..MaxPid).
MaxPid == 4
\* The largest pid the process listing of the poller reports (pids 1..MaxPollPid).
MaxPollPid == 2

\* ------------------------------------------------------------ small helpers

Undefined == [defined |-> FALSE]

Range(s) == { s[i] : i \in 1..Len(s) }

NoDup(s) == \A i, j \in 1..Len(s) : s[i] = s[j] => i = j

RECURSIVE Reverse(_)
Reverse(s) == IF s = <<>> THEN <<>> ELSE Reverse(Tail(s)) \o <<Head(s)>>

\* ------------------------------------------------------------ processModel

\* One ProcessInfo record.
Proc(pid, ppid, pgid, user, cpu, rss, etime, command) ==
    [pid |-> pid, ppid |-> ppid, pgid |-> pgid, user |-> user, cpu |-> cpu,
     rss |-> rss, etime |-> etime, command |-> command]

\* Map.set/get on a map kept as a function over its key set.
MapSet(m, k, v) == [x \in (DOMAIN m) \cup {k} |-> IF x = k THEN v ELSE m[x]]

\* The three index maps after the loop of buildSnapshot has consumed procs.
RECURSIVE IndexLoop(_, _)
IndexLoop(procs, acc) ==
    IF procs = <<>> THEN acc
    ELSE LET p == Head(procs)
             byPid == MapSet(acc.byPid, p.pid, p)
             children ==
                 IF p.ppid \in DOMAIN acc.childrenByPpid
                 THEN MapSet(acc.childrenByPpid, p.ppid,
                             Append(acc.childrenByPpid[p.ppid], p.pid))
                 ELSE MapSet(acc.childrenByPpid, p.ppid, <<p.pid>>)
             groups ==
                 IF p.pgid \in DOMAIN acc.pidsByPgid
                 THEN MapSet(acc.pidsByPgid, p.pgid,
                             Append(acc.pidsByPgid[p.pgid], p.pid))
                 ELSE MapSet(acc.pidsByPgid, p.pgid, <<p.pid>>)
         IN  IndexLoop(Tail(procs),
                       [byPid |-> byPid, childrenByPpid |-> children,
                        pidsByPgid |-> groups])

EmptyMap == [x \in {} |-> <<>>]

buildSnapshot(processes) ==
    LET idx == IndexLoop(processes, [byPid |-> EmptyMap,
                                     childrenByPpid |-> EmptyMap,
                                     pidsByPgid |-> EmptyMap])
    IN  [defined |-> TRUE,
         processes |-> processes,
         byPid |-> idx.byPid,
         childrenByPpid |-> idx.childrenByPpid,
         pidsByPgid |-> idx.pidsByPgid]

Added(p)      == [type |-> "added",   process |-> p, previous |-> <<>>]
Removed(p)    == [type |-> "removed", process |-> p, previous |-> <<>>]
Updated(p, o) == [type |-> "updated", process |-> p, previous |-> <<o>>]

\* A first loop that looks at cpu only.
RECURSIVE DiffNew_CpuOnly(_, _)
DiffNew_CpuOnly(oldSnap, procs) ==
    IF procs = <<>> THEN <<>>
    ELSE LET p == Head(procs)
             ev == IF p.pid \notin DOMAIN oldSnap.byPid
                   THEN <<Added(p)>>
                   ELSE LET old == oldSnap.byPid[p.pid]
                        IN  IF old.cpu # p.cpu THEN <<Updated(p, old)>> ELSE <<>>
         IN  ev \o DiffNew_CpuOnly(oldSnap, Tail(procs))

\* First loop of diffSnapshots: added and updated, in the order of newSnap.processes.
RECURSIVE DiffNew(_, _)
DiffNew(oldSnap, procs) ==
    IF procs = <<>> THEN <<>>
    ELSE LET p == Head(procs)
             ev == IF p.pid \notin DOMAIN oldSnap.byPid
                   THEN <<Added(p)>>
                   ELSE LET old == oldSnap.byPid[p.pid]
                        IN  IF old.cpu # p.cpu \/ old.rss # p.rss \/ old.etime # p.etime
                            THEN <<Updated(p, old)>>
                            ELSE <<>>
         IN  ev \o DiffNew(oldSnap, Tail(procs))

\* A second loop that looks for the old record, not for its pid.
RECURSIVE DiffOld_ComparesRecords(_, _)
DiffOld_ComparesRecords(procs, newSnap) ==
    IF procs = <<>> THEN <<>>
    ELSE LET p == Head(procs)
         IN  (IF p \notin Range(newSnap.processes) THEN <<Removed(p)>> ELSE <<>>)
             \o DiffOld_ComparesRecords(Tail(procs), newSnap)

\* Second loop of diffSnapshots: removed, in the order of oldSnap.processes.
RECURSIVE DiffOld(_, _)
DiffOld(procs, newSnap) ==
    IF procs = <<>> THEN <<>>
    ELSE LET p == Head(procs)
         IN  (IF p.pid \notin DOMAIN newSnap.byPid THEN <<Removed(p)>> ELSE <<>>)
             \o DiffOld(Tail(procs), newSnap)

\* A diff that reports nothing when there is no older snapshot.
diffSnapshots_FirstIsEmpty(oldSnap, newSnap) ==
    IF ~oldSnap.defined
    THEN <<>>
    ELSE DiffNew(oldSnap, newSnap.processes) \o DiffOld(oldSnap.processes, newSnap)

diffSnapshots(oldSnap, newSnap) ==
    IF ~oldSnap.defined
    THEN [i \in 1..Len(newSnap.processes) |-> Added(newSnap.processes[i])]
    ELSE DiffNew(oldSnap, newSnap.processes) \o DiffOld(oldSnap.processes, newSnap)

\* ----------------------------------------------------------- ProcessPoller

\* The periods the host configures (the setting takes any number).
Intervals == {250, 1000}

\* What `ps` can report for one pid at one instant: pid 1 with a varying cpu
\* value; every other pid as one command, or reused by another command with
\* the same metrics.
ListedProcs(pid) ==
    IF pid = 1
    THEN { Proc(1, 0, 1, "root", c, 10, "01:00", "init") : c \in {0, 1} }
    ELSE { Proc(pid, 1, pid, "me", 0, 20, "00:05", c) : c \in {"node", "bash"} }

\* The parsed listings: at most one record per pid, in pid order.
RECURSIVE ListingsUpTo(_)
ListingsUpTo(n) ==
    IF n = 0 THEN { <<>> }
    ELSE LET rest == ListingsUpTo(n - 1)
         IN  rest \cup { Append(l, p) : l \in rest, p \in ListedProcs(n) }

Listings == ListingsUpTo(MaxPollPid)

NoTimers == [ms \in Intervals |-> 0]

\* The callback's view while it runs: the stored snapshot and what it has
\* delivered to the listeners so far.
Cycle(stored) == [snapshot |-> stored, emitted |-> <<>>]

\* this._currentSnapshot = snapshot
assign(st, snapshot) == [st EXCEPT !.snapshot = snapshot]

\* this.emit(type, payload): the listeners run at once, and see poller.snapshot
\* as it is at this moment.
emit(st, type, payload) ==
    [st EXCEPT !.emitted =
        Append(@, [type |-> type, payload |-> payload, stored |-> st.snapshot])]

\* No signal call made yet.
NoSignal == [arg |-> 0, signal |-> "none", outcome |-> "none", shown |-> "none",
             ret |-> FALSE, reached |-> {}]

\* No function of processModel applied.
PureIdle ==
    /\ fn = "none"
    /\ input = <<>>
    /\ output = <<>>

\* No getChildren call made since the tree last changed.
\* getChildren's optional element, left out: the root is asked for.
NoElement == [kind |-> "undefined"]

NoCall == [called |-> FALSE, element |-> NoElement, children |-> <<>>]

\* The tree provider as constructed, while it is not observed.
TreeIdle ==
    /\ shown = NoCall
    /\ treeSnapshot = Undefined
    /\ trie = Undefined
    /\ showSystemProcesses = FALSE
    /\ showOtherUsers = FALSE
    /\ currentUser = <<>>
    /\ treeOp = "new"

\* The controller while only the poller is observed.
CtlIdle ==
    /\ snap = Undefined
    /\ kop = [name |-> "none", target |-> 0, confirm |-> FALSE]
    /\ pc = "idle"
    /\ stack = <<>>
    /\ result = <<>>
    /\ todo = <<>>
    /\ allOk = TRUE
    /\ sent = <<>>
    /\ last = NoSignal
    /\ failed = {}
    /\ prompts = 0
    /\ answer = "none"
    /\ kret = <<>>

InitPoller ==
    /\ CtlIdle
    /\ TreeIdle
    /\ PureIdle
    /\ intervalHandle = <<>>
    /\ timers = NoTimers
    /\ polling = FALSE
    /\ paused = FALSE
    /\ currentSnapshot = Undefined
    /\ intervalMs \in Intervals
    /\ inflight = 0
    /\ emitted = <<>>
    /\ op = "new"
    /\ ret = FALSE
    /\ outcome = "none"
    /\ pollRes = "none"

\* poll() without the in-flight half of its guard.
poll_NoOverlapGuard ==
    IF paused
    THEN /\ pollRes' = "skipped"
         /\ UNCHANGED <<polling, inflight>>
    ELSE /\ pollRes' = "started"
         /\ polling' = TRUE
         /\ inflight' = inflight + 1

\* poll() without the pause half of its guard.
poll_IgnoresPause ==
    IF polling
    THEN /\ pollRes' = "skipped"
         /\ UNCHANGED <<polling, inflight>>
    ELSE /\ pollRes' = "started"
         /\ polling' = TRUE
         /\ inflight' = inflight + 1

\* poll(): the overlap/pause guard, then the execFile call.
poll ==
    IF polling \/ paused
    THEN /\ pollRes' = "skipped"
         /\ UNCHANGED <<polling, inflight>>
    ELSE /\ pollRes' = "started"
         /\ polling' = TRUE
         /\ inflight' = inflight + 1

\* start() without its early return.
start_NoGuard(handle, tm, ms) ==
    /\ poll
    /\ intervalHandle' = <<ms>>
    /\ timers' = [tm EXCEPT ![ms] = @ + 1]

\* start() on a poller whose intervalHandle is `handle`, arming with period `ms`.
start(handle, tm, ms) ==
    IF handle # <<>>
    THEN /\ intervalHandle' = handle
         /\ timers' = tm
         /\ pollRes' = "none"
         /\ UNCHANGED <<polling, inflight>>
    ELSE /\ poll
         /\ intervalHandle' = <<ms>>
         /\ timers' = [tm EXCEPT ![ms] = @ + 1]

\* stop() forgetting the handle without clearing its timer.
stopTimers_KeepsTimer(handle, tm) == tm

\* The timers left armed by stop(): clearInterval of the handle, if any.
stopTimers(handle, tm) ==
    IF handle # <<>> THEN [tm EXCEPT ![handle[1]] = @ - 1] ELSE tm

Start ==
    /\ UNCHANGED <<ctlVars, treeVars, pureVars>>
    /\ op' = "start"
    /\ start(intervalHandle, timers, intervalMs)
    /\ UNCHANGED <<paused, currentSnapshot, intervalMs, emitted, ret, outcome>>

Stop ==
    /\ UNCHANGED <<ctlVars, treeVars, pureVars>>
    /\ op' = "stop"
    /\ timers' = stopTimers(intervalHandle, timers)
    /\ intervalHandle' = <<>>
    /\ pollRes' = "none"
    /\ UNCHANGED <<polling, paused, currentSnapshot, intervalMs, inflight,
                   emitted, ret, outcome>>

TogglePause ==
    /\ UNCHANGED <<ctlVars, treeVars, pureVars>>
    /\ op' = "togglePause"
    /\ paused' = ~paused
    /\ ret' = paused'
    /\ pollRes' = "none"
    /\ UNCHANGED <<intervalHandle, timers, polling, currentSnapshot, intervalMs,
                   inflight, emitted, outcome>>

SetInterval ==
    \E ms \in Intervals :
        /\ UNCHANGED <<ctlVars, treeVars, pureVars>>
        /\ op' = "setInterval"
        /\ intervalMs' = ms
        /\ IF intervalHandle # <<>>
           THEN start(<<>>, stopTimers(intervalHandle, timers), ms)
           ELSE /\ pollRes' = "none"
                /\ UNCHANGED <<intervalHandle, timers, polling, inflight>>
        /\ UNCHANGED <<paused, currentSnapshot, emitted, ret, outcome>>

Refresh ==
    /\ UNCHANGED <<ctlVars, treeVars, pureVars>>
    /\ op' = "refresh"
    /\ poll
    /\ UNCHANGED <<intervalHandle, timers, paused, currentSnapshot, intervalMs,
                   emitted, ret, outcome>>

\* One of the armed timers fires.
Tick ==
    /\ UNCHANGED <<ctlVars, treeVars, pureVars>>
    /\ \E ms \in Intervals : timers[ms] > 0
    /\ op' = "tick"
    /\ poll
    /\ UNCHANGED <<intervalHandle, timers, paused, currentSnapshot, intervalMs,
                   emitted, ret, outcome>>

\* The try block emitting before it replaces the stored snapshot.
publish_EmitBeforeReplace(stored, processes) ==
    LET newSnapshot == buildSnapshot(processes)
        events == diffSnapshots(stored, newSnapshot)
        st == Cycle(stored)
        told == IF Len(events) > 0 THEN emit(st, "events", events) ELSE st
    IN  assign(emit(told, "snapshot", newSnapshot), newSnapshot)

\* The try block of the execFile callback on the parsed listing `processes`.
publish(stored, processes) ==
    LET newSnapshot == buildSnapshot(processes)
        events == diffSnapshots(stored, newSnapshot)
        replaced == assign(Cycle(stored), newSnapshot)
        told == IF Len(events) > 0 THEN emit(replaced, "events", events) ELSE replaced
    IN  emit(told, "snapshot", newSnapshot)

\* A failure path that forgets the last-good snapshot.
fail_DropsSnapshot(stored) == emit(assign(Cycle(stored), Undefined), "error", <<>>)

\* The callback's path when the listing call failed (err) or parsing threw.
fail(stored) == emit(Cycle(stored), "error", <<>>)

\* A callback that clears the in-flight guard only on its success path.
Complete_StuckOnError ==
    /\ UNCHANGED <<ctlVars, treeVars, pureVars>>
    /\ inflight > 0
    /\ op' = "complete"
    /\ inflight' = inflight - 1
    /\ pollRes' = "none"
    /\ \E o \in {"error", "throw", "ok"} :
         /\ outcome' = o
         /\ polling' = (o # "ok")
         /\ \E processes \in (IF o = "ok" THEN Listings ELSE { <<>> }) :
              LET done == IF o = "ok" THEN publish(currentSnapshot, processes)
                          ELSE fail(currentSnapshot)
              IN  /\ currentSnapshot' = done.snapshot
                  /\ emitted' = done.emitted
    /\ UNCHANGED <<intervalHandle, timers, paused, intervalMs, ret>>

\* The execFile callback: the listing call ended with an error, or its output
\* made the parser throw, or it parsed to `processes`.
Complete ==
    /\ UNCHANGED <<ctlVars, treeVars, pureVars>>
    /\ inflight > 0
    /\ op' = "complete"
    /\ polling' = FALSE
    /\ inflight' = inflight - 1
    /\ pollRes' = "none"
    /\ \E o \in {"error", "throw", "ok"} :
         /\ outcome' = o
         /\ \E processes \in (IF o = "ok" THEN Listings ELSE { <<>> }) :
              LET done == IF o = "ok" THEN publish(currentSnapshot, processes)
                          ELSE fail(currentSnapshot)
              IN  /\ currentSnapshot' = done.snapshot
                  /\ emitted' = done.emitted
    /\ UNCHANGED <<intervalHandle, timers, paused, intervalMs, ret>>

NextPoller ==
    \/ Start
    \/ Stop
    \/ TogglePause
    \/ SetInterval
    \/ Refresh
    \/ Tick
    \/ Complete


SpecPoller == InitPoller /\ [][NextPoller]_vars

\* ------------------------------------------------------ claims on the poller

Armed == \E ms \in Intervals : timers[ms] > 0

\* C1: at most one external listing call is in flight at any time; a timer
\* tick or refresh() arriving while a poll is in flight starts no acquisition,
\* and none is started on its behalf when the in-flight call completes (an
\* acquisition starts only from a state with no call in flight, and the
\* completion step itself starts none).
C1_AtMostOneInFlight ==
    /\ [](inflight <= 1 /\ (polling <=> inflight = 1))
    /\ [][ /\ (inflight > 0 /\ op' \in {"tick", "refresh"}
                  => inflight' = inflight /\ pollRes' = "skipped")
           /\ (op' = "complete" => inflight' = inflight - 1 /\ pollRes' = "none")
           /\ (inflight' > inflight => inflight = 0) ]_vars

\* A refresh() or tick arrived while a listing call was in flight.
C1_Witness ==
    /\ op \in {"tick", "refresh"}
    /\ pollRes = "skipped"
    /\ ~paused
    /\ inflight = 1

PidsOf(s) == IF s.defined THEN { s.processes[i].pid : i \in 1..Len(s.processes) } ELSE {}

RecOf(s, pid) == CHOOSE r \in Range(s.processes) : r.pid = pid

\* Whether the diff of two snapshots has anything to report, stated on the
\* snapshots themselves.
Changed(old, new) ==
    IF ~old.defined THEN new.processes # <<>>
    ELSE \/ PidsOf(old) # PidsOf(new)
         \/ \E pid \in PidsOf(old) \cap PidsOf(new) :
               \/ RecOf(old, pid).cpu # RecOf(new, pid).cpu
               \/ RecOf(old, pid).rss # RecOf(new, pid).rss
               \/ RecOf(old, pid).etime # RecOf(new, pid).etime

\* C8: on every successful poll the stored snapshot is replaced by the new
\* one, 'events' is emitted (first) exactly when the diff against the
\* previously stored snapshot is non-empty, 'snapshot' is emitted last and
\* unconditionally with the new snapshot, and at each delivery poller.snapshot
\* already is the new snapshot.
C8_PublishThenEmit ==
    [][ op' = "complete" /\ outcome' = "ok" =>
          LET n == Len(emitted')
          IN  /\ currentSnapshot'.defined
              /\ currentSnapshot'.processes \in Listings
              /\ n = (IF Changed(currentSnapshot, currentSnapshot') THEN 2 ELSE 1)
              /\ emitted'[n].type = "snapshot"
              /\ emitted'[n].payload = currentSnapshot'
              /\ \A i \in 1..n : emitted'[i].stored = currentSnapshot'
              /\ n = 2 =>
                    /\ emitted'[1].type = "events"
                    /\ Len(emitted'[1].payload) > 0
                    /\ \A e \in Range(emitted'[1].payload) :
                          /\ e.type = "added" =>
                                e.process.pid \in PidsOf(currentSnapshot') \ PidsOf(currentSnapshot)
                          /\ e.type = "removed" =>
                                e.process.pid \in PidsOf(currentSnapshot) \ PidsOf(currentSnapshot')
                          /\ e.type = "updated" =>
                                e.previous = <<RecOf(currentSnapshot, e.process.pid)>>
    ]_vars

\* A successful poll over an earlier snapshot that emitted both events.
C8_Witness ==
    /\ op = "complete"
    /\ outcome = "ok"
    /\ Len(emitted) = 2
    /\ \E e \in Range(emitted[1].payload) : e.type = "updated"
    /\ \E e \in Range(emitted[1].payload) : e.type = "removed"

\* C9: when the listing call fails or parsing throws, the cycle emits 'error'
\* and nothing else, and the stored snapshot stays the one stored before the
\* cycle (also as seen by the error listener).
C9_ErrorKeepsSnapshot ==
    [][ op' = "complete" /\ outcome' \in {"error", "throw"} =>
          /\ currentSnapshot' = currentSnapshot
          /\ Len(emitted') = 1
          /\ emitted'[1].type = "error"
          /\ emitted'[1].stored = currentSnapshot
    ]_vars

\* A parse exception in a cycle that follows a successful one.
C9_Witness ==
    /\ op = "complete"
    /\ outcome = "throw"
    /\ currentSnapshot.defined
    /\ currentSnapshot.processes # <<>>
    /\ Len(emitted) = 1

\* C10: while paused, neither a tick, nor refresh(), nor start() (directly or
\* through setInterval()) starts an acquisition; togglePause() flips the flag,
\* returns the new value and leaves the timer as it is; a tick of an unpaused,
\* idle poller starts an acquisition.
C10_PauseSuppressesPolls ==
    [][ /\ (paused /\ op' \in {"tick", "refresh", "start", "setInterval"}
               => inflight' = inflight /\ pollRes' # "started")
        /\ (op' = "togglePause"
               => /\ paused' = ~paused
                  /\ ret' = paused'
                  /\ timers' = timers
                  /\ intervalHandle' = intervalHandle
                  /\ inflight' = inflight)
        /\ (op' = "tick" /\ ~paused /\ ~polling
               => inflight' = inflight + 1 /\ pollRes' = "started")
    ]_vars

\* A tick of an armed timer was suppressed by the pause flag alone.
C10_Witness ==
    /\ op = "tick"
    /\ paused
    /\ Armed
    /\ pollRes = "skipped"
    /\ inflight = 0

\* The number of repeating timers armed.
RECURSIVE TimerCount(_, _)
TimerCount(tm, periods) ==
    IF periods = {} THEN 0
    ELSE LET ms == CHOOSE x \in periods : TRUE
         IN  tm[ms] + TimerCount(tm, periods \ {ms})

\* C11: start() on a stopped poller makes one poll attempt (which starts an
\* acquisition iff the poller is idle and not paused) and arms one timer of
\* the configured period; on a started poller it changes nothing; whatever
\* start/stop/setInterval calls were made, at most one timer is armed, and
\* one is armed exactly while the poller holds a handle.
C11_StartIdempotent ==
    /\ [](/\ TimerCount(timers, Intervals) <= 1
          /\ intervalHandle # <<>> <=> TimerCount(timers, Intervals) = 1
          /\ intervalHandle # <<>> => timers[intervalHandle[1]] = 1)
    /\ [][ op' = "start" =>
             IF intervalHandle = <<>>
             THEN /\ pollRes' = (IF polling \/ paused THEN "skipped" ELSE "started")
                  /\ inflight' = (IF polling \/ paused THEN inflight ELSE inflight + 1)
                  /\ intervalHandle' = <<intervalMs>>
                  /\ timers' = [timers EXCEPT ![intervalMs] = 1]
             ELSE /\ pollRes' = "none"
                  /\ UNCHANGED <<intervalHandle, timers, polling, paused,
                                 currentSnapshot, intervalMs, inflight, emitted>>
       ]_vars

\* start() was called on a started, idle, unpaused poller and did nothing.
C11_Witness ==
    /\ op = "start"
    /\ pollRes = "none"
    /\ intervalHandle # <<>>
    /\ ~paused
    /\ inflight = 0

\* C12: stop() leaves no timer armed and does not touch a poll in flight; no
\* tick happens on a stopped poller; a listing call that completes on a
\* stopped poller still replaces the stored snapshot and emits it.
C12_StopKeepsInFlight ==
    /\ [][ op' = "stop" =>
             /\ ~Armed'
             /\ intervalHandle' = <<>>
             /\ UNCHANGED <<polling, inflight, currentSnapshot, emitted, paused>>
       ]_vars
    /\ [][ op' = "tick" => intervalHandle # <<>> ]_vars
    /\ [][ intervalHandle = <<>> /\ op' = "complete" =>
             /\ inflight' = inflight - 1
             /\ outcome' = "ok" =>
                   /\ currentSnapshot'.defined
                   /\ currentSnapshot'.processes \in Listings
                   /\ emitted' # <<>>
                   /\ emitted'[Len(emitted')].type = "snapshot"
                   /\ emitted'[Len(emitted')].payload = currentSnapshot'
       ]_vars

\* stop() was called while a listing call was in flight, and the call is
\* still in flight.
C12_Witness ==
    /\ op = "stop"
    /\ inflight = 1
    /\ polling
    /\ ~Armed
    /\ intervalHandle = <<>>

\* C13: setInterval(ms) only re-arms: afterwards one timer of period ms is
\* armed if the poller was running and none if it was stopped, a poll in
\* flight stays as it is, and the call starts no acquisition.
C13_SetIntervalOnlyRearms ==
    [][ op' = "setInterval" =>
          /\ IF intervalHandle # <<>>
             THEN /\ intervalHandle' = <<intervalMs'>>
                  /\ timers' = [NoTimers EXCEPT ![intervalMs'] = 1]
             ELSE /\ intervalHandle' = <<>>
                  /\ timers' = NoTimers
          /\ inflight' = inflight
          /\ polling' = polling
          /\ pollRes' = "none"
    ]_vars

\* C14: whenever the listing call completes, with any outcome, the in-flight
\* guard is cleared; the guard is set only while a call is outstanding; and
\* the first tick after a completion starts an acquisition unless the poller
\* is paused.
C14_SelfHealing ==
    /\ [](polling => inflight > 0)
    /\ [][ op' = "complete" => ~polling' /\ inflight' = 0 ]_vars
    /\ [][ op = "complete" /\ op' = "tick" /\ ~paused =>
             pollRes' = "started" /\ polling' /\ inflight' = 1 ]_vars

\* A tick started an acquisition after a cycle that failed.
C14_Witness ==
    /\ op = "tick"
    /\ pollRes = "started"
    /\ outcome \in {"error", "throw"}
    /\ polling
    /\ inflight = 1

\* ------------------------------------------------------- ProcessController

\* The process group of ordinary user processes, the extension host's among them.
UserPgid == 2

\* How a process.kill call can end: it returns, or throws an error whose
\* message names the errno.
Outcomes == {"ok", "ESRCH", "EPERM", "EINVAL"}

PidOps   == {"terminatePid", "forceKillPid"}
GroupOps == {"terminateGroup", "forceKillGroup"}
OpNames  == PidOps \cup GroupOps \cup {"terminateSubtree"}

\* The accept button of each operation's confirmation prompt.
Button(name) ==
    CASE name = "terminatePid"     -> "Terminate"
      [] name = "forceKillPid"     -> "Force Kill"
      [] name = "terminateGroup"   -> "Terminate Group"
      [] name = "forceKillGroup"   -> "Force Kill Group"
      [] name = "terminateSubtree" -> "Terminate Subtree"

\* The signal each operation sends.
SignalOf(name) ==
    IF name \in {"forceKillPid", "forceKillGroup"} THEN "SIGKILL" ELSE "SIGTERM"

\* A modal showWarningMessage with one item resolves to that item or, when
\* dismissed, to undefined.
Answers(name) == { Button(name), "undefined" }

\* A process as the controller's snapshot lists it: pid 0 and pid 1 lead their
\* own groups, every other process is in the user's group.
CtlProc(pid, ppid) ==
    Proc(pid, ppid, IF pid < 2 THEN pid ELSE UserPgid,
         IF pid < 2 THEN "root" ELSE "me", 0, 10, "00:01", "p")

\* The listings a snapshot is built from: pid 0 (its own parent) where the
\* platform lists it, pid 1 (parent 0), and pids 2..MaxPid with a parent link
\* to any other pid, listed or not; the links need not be those of one
\* instant, so they may form a cycle. The lines come in ascending or in
\* descending pid order.
CtlListings ==
    { LET l == (IF has0 THEN <<CtlProc(0, 0)>> ELSE <<>>) \o <<CtlProc(1, 0)>>
                  \o [i \in 1..(MaxPid - 1) |-> CtlProc(i + 1, f[i + 1])]
      IN  IF desc THEN Reverse(l) ELSE l :
      has0 \in BOOLEAN, desc \in BOOLEAN,
      f \in { g \in [2..MaxPid -> 0..MaxPid] : \A q \in 2..MaxPid : g[q] # q } }

\* The processes a kill(arg, signal) call of the host addresses: a positive
\* arg one pid, 0 the caller's own process group, -1 every process the caller
\* may signal (all but pid 0 and pid 1), another negative arg the group -arg.
KillTargets(arg, procs) ==
    LET pids == { procs[i].pid : i \in 1..Len(procs) }
        group(g) == { procs[i].pid : i \in { j \in 1..Len(procs) : procs[j].pgid = g } }
    IN  IF arg > 0 THEN {arg} \cap pids
        ELSE IF arg = 0 THEN group(UserPgid)
        ELSE IF arg = -1 THEN { q \in pids : q > 1 }
        ELSE group(-arg)

\* process.kill(arg, signal) ending with outcome o.
processKill(arg, signal, o, procs) ==
    [arg |-> arg, signal |-> signal, outcome |-> o,
     reached |-> IF o = "ok" THEN KillTargets(arg, procs) ELSE {}]

\* A catch block that counts "no such process" as a failure.
handled_EsrchFails(call) ==
    [arg |-> call.arg, signal |-> call.signal, outcome |-> call.outcome,
     reached |-> call.reached,
     shown |-> IF call.outcome = "ok" THEN "none"
               ELSE IF call.outcome = "EPERM" THEN "error: permission denied"
               ELSE "error: failed to signal",
     ret |-> call.outcome = "ok"]

\* The try/catch around process.kill, the same in both senders.
handled(call) ==
    IF call.outcome = "ok"
    THEN [arg |-> call.arg, signal |-> call.signal, outcome |-> call.outcome,
          reached |-> call.reached, shown |-> "none", ret |-> TRUE]
    ELSE IF call.outcome = "ESRCH"
    THEN [arg |-> call.arg, signal |-> call.signal, outcome |-> call.outcome,
          reached |-> call.reached, shown |-> "info: has already exited", ret |-> TRUE]
    ELSE IF call.outcome = "EPERM"
    THEN [arg |-> call.arg, signal |-> call.signal, outcome |-> call.outcome,
          reached |-> call.reached, shown |-> "error: permission denied", ret |-> FALSE]
    ELSE [arg |-> call.arg, signal |-> call.signal, outcome |-> call.outcome,
          reached |-> call.reached, shown |-> "error: failed to signal", ret |-> FALSE]

sendSignal(pid, signal, o, procs) == handled(processKill(pid, signal, o, procs))

sendSignalToGroup(pgid, signal, o, procs) == handled(processKill(-pgid, signal, o, procs))

\* One iteration of the while loop of getDescendants.
getDescendantsStep(stk, res, snapshot) ==
    LET current == stk[Len(stk)]
        children == IF current \in DOMAIN snapshot.childrenByPpid
                    THEN snapshot.childrenByPpid[current]
                    ELSE <<>>
    IN  [stack |-> SubSeq(stk, 1, Len(stk) - 1) \o children,
         result |-> res \o children]

\* The descendants in the order collected, not reversed.
signalOrder_NotReversed(descendants, pid) == descendants \o <<pid>>

\* The order in which terminateSubtree signals: the descendants reversed, then
\* the target.
signalOrder(descendants, pid) == Reverse(descendants) \o <<pid>>

\* A check that takes any answer for consent.
accepted_Always(ans, button) == TRUE

\* if (answer !== button) return false
accepted(ans, button) == ans = button

\* The poller while only the controller is observed.
PollerIdle ==
    /\ intervalHandle = <<>>
    /\ timers = NoTimers
    /\ polling = FALSE
    /\ paused = FALSE
    /\ currentSnapshot = Undefined
    /\ intervalMs = 1000
    /\ inflight = 0
    /\ emitted = <<>>
    /\ op = "new"
    /\ ret = FALSE
    /\ outcome = "none"
    /\ pollRes = "none"

InitCtl ==
    /\ PollerIdle
    /\ TreeIdle
    /\ PureIdle
    /\ snap \in { buildSnapshot(l) : l \in CtlListings }
    /\ kop = [name |-> "none", target |-> 0, confirm |-> FALSE]
    /\ pc = "idle"
    /\ stack = <<>>
    /\ result = <<>>
    /\ todo = <<>>
    /\ allOk = TRUE
    /\ sent = <<>>
    /\ last = NoSignal
    /\ failed = {}
    /\ prompts = 0
    /\ answer = "none"
    /\ kret = <<>>

\* A kill command is invoked on a process of the snapshot (its pid, or its
\* pgid for the group operations). terminateSubtree starts by collecting the
\* descendants; the others prompt or go on to signal.
Invoke ==
    /\ UNCHANGED <<pollerVars, treeVars, pureVars>>
    /\ pc = "idle"
    /\ \E name \in OpNames, confirm \in BOOLEAN, p \in Range(snap.processes) :
         LET target == IF name \in GroupOps THEN p.pgid ELSE p.pid
         IN  /\ kop' = [name |-> name, target |-> target, confirm |-> confirm]
             /\ IF name = "terminateSubtree"
                THEN /\ pc' = "descend"
                     /\ stack' = <<target>>
                     /\ prompts' = 0
                ELSE /\ pc' = IF confirm THEN "prompt" ELSE "signal"
                     /\ stack' = <<>>
                     /\ prompts' = IF confirm THEN 1 ELSE 0
    /\ result' = <<>>
    /\ todo' = <<>>
    /\ allOk' = TRUE
    /\ sent' = <<>>
    /\ last' = NoSignal
    /\ failed' = {}
    /\ answer' = "none"
    /\ kret' = <<>>
    /\ UNCHANGED snap

\* getDescendants: one pass of the loop (the model follows a result that keeps
\* growing only up to MaxPid + 2 entries).
DescendStep ==
    /\ UNCHANGED <<pollerVars, treeVars, pureVars>>
    /\ pc = "descend"
    /\ stack # <<>>
    /\ Len(result) <= MaxPid + 1
    /\ LET st == getDescendantsStep(stack, result, snap)
       IN  /\ stack' = st.stack
           /\ result' = st.result
    /\ UNCHANGED <<snap, kop, pc, todo, allOk, sent, last, failed, prompts, answer, kret>>

\* getDescendants returns; terminateSubtree prompts, or starts to signal.
DescendDone ==
    /\ UNCHANGED <<pollerVars, treeVars, pureVars>>
    /\ pc = "descend"
    /\ stack = <<>>
    /\ IF kop.confirm
       THEN /\ pc' = "prompt"
            /\ prompts' = prompts + 1
            /\ todo' = todo
       ELSE /\ pc' = "signal"
            /\ prompts' = prompts
            /\ todo' = signalOrder(result, kop.target)
    /\ UNCHANGED <<snap, kop, stack, result, allOk, sent, last, failed, answer, kret>>

\* The user answers the confirmation prompt.
Answer ==
    /\ UNCHANGED <<pollerVars, treeVars, pureVars>>
    /\ pc = "prompt"
    /\ \E a \in Answers(kop.name) :
         /\ answer' = a
         /\ IF accepted(a, Button(kop.name))
            THEN /\ pc' = "signal"
                 /\ kret' = kret
                 /\ todo' = IF kop.name = "terminateSubtree"
                            THEN signalOrder(result, kop.target)
                            ELSE todo
            ELSE /\ pc' = "done"
                 /\ kret' = <<FALSE>>
                 /\ todo' = todo
    /\ UNCHANGED <<snap, kop, stack, result, allOk, sent, last, failed, prompts>>

\* terminatePid / forceKillPid / terminateGroup / forceKillGroup: the one
\* sender call, whose result is the operation's.
SendOne ==
    /\ UNCHANGED <<pollerVars, treeVars, pureVars>>
    /\ pc = "signal"
    /\ kop.name \in PidOps \cup GroupOps
    /\ \E o \in Outcomes :
         LET r == IF kop.name \in PidOps
                  THEN sendSignal(kop.target, SignalOf(kop.name), o, snap.processes)
                  ELSE sendSignalToGroup(kop.target, SignalOf(kop.name), o, snap.processes)
         IN  /\ last' = r
             /\ sent' = Append(sent, r.arg)
             /\ failed' = IF o \in {"ok", "ESRCH"} THEN failed ELSE failed \cup {r.arg}
             /\ kret' = <<r.ret>>
    /\ pc' = "done"
    /\ UNCHANGED <<snap, kop, stack, result, todo, allOk, prompts, answer>>

\* A loop that gives up at the first failed signal.
SignalStep_AbortOnFailure ==
    /\ UNCHANGED <<pollerVars, treeVars, pureVars>>
    /\ pc = "signal"
    /\ kop.name = "terminateSubtree"
    /\ todo # <<>>
    /\ \E o \in Outcomes :
         LET r == sendSignal(Head(todo), SignalOf(kop.name), o, snap.processes)
         IN  /\ last' = r
             /\ sent' = Append(sent, r.arg)
             /\ failed' = IF o \in {"ok", "ESRCH"} THEN failed ELSE failed \cup {r.arg}
             /\ allOk' = r.ret
             /\ todo' = Tail(todo)
             /\ IF Tail(todo) = <<>> \/ ~r.ret
                THEN pc' = "done" /\ kret' = <<r.ret>>
                ELSE pc' = "signal" /\ kret' = kret
    /\ UNCHANGED <<snap, kop, stack, result, prompts, answer>>

\* terminateSubtree: the next sendSignal call of the loop (the target's call
\* is the last one, and the operation returns after it).
SignalStep ==
    /\ UNCHANGED <<pollerVars, treeVars, pureVars>>
    /\ pc = "signal"
    /\ kop.name = "terminateSubtree"
    /\ todo # <<>>
    /\ \E o \in Outcomes :
         LET r == sendSignal(Head(todo), SignalOf(kop.name), o, snap.processes)
             ok == IF r.ret THEN allOk ELSE FALSE
         IN  /\ last' = r
             /\ sent' = Append(sent, r.arg)
             /\ failed' = IF o \in {"ok", "ESRCH"} THEN failed ELSE failed \cup {r.arg}
             /\ allOk' = ok
             /\ todo' = Tail(todo)
             /\ IF Tail(todo) = <<>>
                THEN pc' = "done" /\ kret' = <<ok>>
                ELSE pc' = "signal" /\ kret' = kret
    /\ UNCHANGED <<snap, kop, stack, result, prompts, answer>>

\* The operation has returned to the command handler; the controller keeps
\* nothing of it.
Finish ==
    /\ UNCHANGED <<pollerVars, treeVars, pureVars>>
    /\ pc = "done"
    /\ pc' = "idle"
    /\ kop' = [name |-> "none", target |-> 0, confirm |-> FALSE]
    /\ stack' = <<>>
    /\ result' = <<>>
    /\ todo' = <<>>
    /\ allOk' = TRUE
    /\ sent' = <<>>
    /\ last' = NoSignal
    /\ failed' = {}
    /\ prompts' = 0
    /\ answer' = "none"
    /\ kret' = <<>>
    /\ UNCHANGED snap

NextCtl ==
    \/ Invoke
    \/ DescendStep
    \/ DescendDone
    \/ Answer
    \/ SendOne
    \/ SignalStep
    \/ Finish

SpecCtl == InitCtl /\ [][NextCtl]_vars

\* --------------------------------------------------- claims on the controller

\* The proper ancestors of pid p, following the ppid fields for at most n links.
RECURSIVE AncestorsOf(_, _, _)
AncestorsOf(s, p, n) ==
    IF n = 0 \/ p \notin PidsOf(s) THEN {}
    ELSE LET q == RecOf(s, p).ppid IN {q} \cup AncestorsOf(s, q, n - 1)

IsAncestor(s, a, d) == a \in AncestorsOf(s, d, Len(s.processes))

\* The descendants of root: the other processes that have root among their ancestors.
Closure(s, root) == { p \in PidsOf(s) \ {root} : IsAncestor(s, root, p) }

\* The snapshot is the chain 1 <- 2 <- ... <- MaxPid.
IsChain(s) == \A p \in 2..MaxPid : RecOf(s, p).ppid = p - 1

Subtree == kop.name = "terminateSubtree"

\* C2: terminateSubtree signals bottom-up: no pid is signalled before one of
\* its descendants, the target is not signalled while signals are still to be
\* sent and is the last pid signalled; on the chain 1 <- 2 <- ... <- MaxPid
\* with target 1 the order is MaxPid, ..., 2, 1.
C2_BottomUp ==
    Subtree =>
        /\ \A i, j \in 1..Len(sent) : i < j => ~IsAncestor(snap, sent[i], sent[j])
        /\ pc = "signal" => kop.target \notin Range(sent)
        /\ pc = "done" /\ sent # <<>> =>
              /\ sent[Len(sent)] = kop.target
              /\ IsChain(snap) /\ kop.target = 1 =>
                    sent = [i \in 1..MaxPid |-> MaxPid + 1 - i]

\* A branching subtree two levels deep was signalled completely.
C2_Witness ==
    /\ Subtree
    /\ pc = "done"
    /\ \E a, b, c \in Range(sent) :
          /\ a # b
          /\ RecOf(snap, a).ppid = kop.target
          /\ RecOf(snap, b).ppid = kop.target
          /\ RecOf(snap, c).ppid = a
          /\ {a, b, c} \cap {kop.target} = {}

\* C3: when terminateSubtree returns after signalling, it has made exactly one
\* signal call for each pid of the closure (the target and its descendants)
\* whatever calls failed, and it returns true iff no call failed other than
\* with "no such process".
C3_AllAttempted ==
    Subtree /\ pc = "done" /\ answer \in {"none", Button(kop.name)} =>
        /\ NoDup(sent)
        /\ Range(sent) = Closure(snap, kop.target) \cup {kop.target}
        /\ kret = <<failed = {}>>

\* The signal to pid 3 of the chain failed: all of the chain was signalled
\* all the same, and the result is false.
C3_Witness ==
    /\ Subtree
    /\ pc = "done"
    /\ IsChain(snap)
    /\ kop.target = 1
    /\ failed = {3}
    /\ Range(sent) = 1..MaxPid
    /\ kret = <<FALSE>>

\* C4: an operation invoked with confirm shows exactly one prompt (for a
\* subtree once its descendants are collected), one invoked without shows
\* none; no signal call is made before the prompt is answered, and after any
\* answer but the accept button the operation has returned false without a
\* signal call.
C4_ConfirmOnce ==
    kop.name \in OpNames =>
        /\ prompts = (IF kop.confirm /\ pc \in {"prompt", "signal", "done"} THEN 1 ELSE 0)
        /\ pc = "prompt" => sent = <<>> /\ kret = <<>>
        /\ answer \notin {"none", Button(kop.name)} =>
              pc = "done" /\ kret = <<FALSE>> /\ sent = <<>>
        /\ sent # <<>> /\ kop.confirm => answer = Button(kop.name)
        /\ ~kop.confirm => answer = "none"

\* The one prompt of a subtree kill with several descendants was dismissed.
C4_Witness ==
    /\ Subtree
    /\ kop.confirm
    /\ Len(result) >= 2
    /\ prompts = 1
    /\ answer = "undefined"
    /\ pc = "done"
    /\ sent = <<>>

\* C5: the descendant computation yields each descendant of the target exactly
\* once and never the target itself, for every snapshot (so that it ends).
C5_CycleSafe ==
    Subtree =>
        /\ NoDup(result)
        /\ kop.target \notin Range(result)
        /\ pc # "descend" => Range(result) = Closure(snap, kop.target)

\* The processes an operation is meant to address.
Intended ==
    IF kop.name \in PidOps
    THEN {kop.target} \cap PidsOf(snap)
    ELSE { q \in PidsOf(snap) : RecOf(snap, q).pgid = kop.target }

\* C6: a pid or group operation makes exactly one signal call, and a call
\* that succeeds reaches exactly the operation's target: the one pid, or the
\* processes whose pgid is the argument.
C6_ExactTarget ==
    kop.name \in PidOps \cup GroupOps /\ pc = "done" /\ sent # <<>> =>
        /\ Len(sent) = 1
        /\ last.outcome = "ok" => last.reached = Intended

\* C7: both senders classify a failed call alike: "no such process" shows an
\* information message and counts as success, "permission denied" and any
\* other failure show an error and count as failure; a pid or group operation
\* returns that verdict after its single call, no call is repeated, and every
\* operation that ends has returned a value.
C7_FailureClassification ==
    /\ last.outcome = "ok" => last.ret /\ last.shown = "none"
    /\ last.outcome = "ESRCH" => last.ret /\ last.shown = "info: has already exited"
    /\ last.outcome = "EPERM" => ~last.ret /\ last.shown = "error: permission denied"
    /\ last.outcome \notin {"none", "ok", "ESRCH", "EPERM"} =>
          ~last.ret /\ last.shown = "error: failed to signal"
    /\ kop.name \in PidOps \cup GroupOps /\ pc = "done" /\ sent # <<>> =>
          /\ Len(sent) = 1
          /\ kret = <<last.outcome \in {"ok", "ESRCH"}>>
    /\ NoDup(sent)
    /\ pc = "done" => kret \in {<<TRUE>>, <<FALSE>>}

\* A group signal that found no such process: reported, and counted as success.
C7_Witness ==
    /\ kop.name \in GroupOps
    /\ pc = "done"
    /\ last.outcome = "ESRCH"
    /\ last.arg < 0
    /\ kret = <<TRUE>>

\* ----------------------------------------------------- ProcessTreeProvider

\* A string is kept as the sequence of its tokens: "/" (the path separator),
\* " " (white space), "_" (an underscore that starts a user name) and names
\* (runs of other characters); '' is <<>>, a + b is a \o b.

\* b.startsWith(a)
startsWith(b, a) == Len(a) <= Len(b) /\ SubSeq(b, 1, Len(a)) = a

\* str.split(sep): the pieces between the occurrences of sep, empty ones too.
RECURSIVE split(_, _)
split(str, sep) ==
    IF \A i \in 1..Len(str) : str[i] # sep THEN <<str>>
    ELSE LET i == CHOOSE k \in 1..Len(str) :
                     str[k] = sep /\ \A j \in 1..(k - 1) : str[j] # sep
         IN  <<SubSeq(str, 1, i - 1)>> \o split(SubSeq(str, i + 1, Len(str)), sep)

NonEmpty(str) == Len(str) > 0

RECURSIVE SumSeq(_)
SumSeq(nums) == IF nums = <<>> THEN 0 ELSE Head(nums) + SumSeq(Tail(nums))

\* One ProcessInfo record as the tree provider reads it: user, command and
\* args are strings kept as token sequences.
TreeProc(pid, user, cpu, rss, command, args) ==
    [pid |-> pid, ppid |-> 0, pgid |-> pid, user |-> user, cpu |-> cpu,
     rss |-> rss, etime |-> "00:05", command |-> command, args |-> args]

createTrieNode(segment, fullPath) ==
    [segment |-> segment, fullPath |-> fullPath, children |-> <<>>,
     processes |-> <<>>, totalCount |-> 0, totalCpu |-> 0, totalRss |-> 0]

getPathSegments(proc) ==
    LET first    == split(proc.args, " ")[1]
        cmdPath  == IF NonEmpty(first) THEN first ELSE proc.command
        stripped == IF startsWith(cmdPath, <<"/">>) THEN Tail(cmdPath) ELSE cmdPath
        segments == SelectSeq(split(stripped, "/"), NonEmpty)
    IN  IF Len(segments) > 0 THEN segments ELSE <<proc.command>>

\* The inner loop of buildTrie and the push that follows it: walk down the
\* folder segments from `current`, creating the folders that are missing, and
\* attach proc to the last one. A Map is kept as the sequence of its entries
\* in insertion order.
RECURSIVE attach(_, _, _)
attach(current, folderSegments, proc) ==
    IF folderSegments = <<>>
    THEN [current EXCEPT !.processes = Append(@, proc)]
    ELSE LET seg == Head(folderSegments)
             has == \E i \in 1..Len(current.children) : current.children[i].key = seg
             childPath == IF NonEmpty(current.fullPath)
                          THEN current.fullPath \o <<"/">> \o seg
                          ELSE seg
             children == IF has THEN current.children
                         ELSE Append(current.children,
                                     [key |-> seg, node |-> createTrieNode(seg, childPath)])
             at == CHOOSE i \in 1..Len(children) : children[i].key = seg
         IN  [current EXCEPT !.children =
                 [children EXCEPT ![at].node = attach(@, Tail(folderSegments), proc)]]

\* The outer loop of buildTrie.
RECURSIVE attachAll(_, _)
attachAll(root, processes) ==
    IF processes = <<>> THEN root
    ELSE LET proc == Head(processes)
             segments == getPathSegments(proc)
             folderSegments == IF Len(segments) > 1
                               THEN SubSeq(segments, 1, Len(segments) - 1)
                               ELSE <<>>
         IN  attachAll(attach(root, folderSegments, proc), Tail(processes))

\* A totals pass that counts a folder's own processes only.
RECURSIVE computeTotals_DirectOnly(_)
computeTotals_DirectOnly(node) ==
    LET kids == [i \in 1..Len(node.children) |->
                    [key |-> node.children[i].key,
                     node |-> computeTotals_DirectOnly(node.children[i].node)]]
    IN  [node EXCEPT
            !.children = kids,
            !.totalCount = Len(node.processes),
            !.totalCpu = SumSeq([i \in 1..Len(node.processes) |-> node.processes[i].cpu]),
            !.totalRss = SumSeq([i \in 1..Len(node.processes) |-> node.processes[i].rss])]

RECURSIVE computeTotals(_)
computeTotals(node) ==
    LET kids == [i \in 1..Len(node.children) |->
                    [key |-> node.children[i].key,
                     node |-> computeTotals(node.children[i].node)]]
    IN  [node EXCEPT
            !.children = kids,
            !.totalCount = Len(node.processes)
                           + SumSeq([i \in 1..Len(kids) |-> kids[i].node.totalCount]),
            !.totalCpu = SumSeq([i \in 1..Len(node.processes) |-> node.processes[i].cpu])
                         + SumSeq([i \in 1..Len(kids) |-> kids[i].node.totalCpu]),
            !.totalRss = SumSeq([i \in 1..Len(node.processes) |-> node.processes[i].rss])
                         + SumSeq([i \in 1..Len(kids) |-> kids[i].node.totalRss])]

buildTrie(processes) == computeTotals(attachAll(createTrieNode(<<>>, <<>>), processes))

\* merged: the node that stands for `node` and its only child.
merge(node, onlyChild) ==
    [segment |-> node.segment \o <<"/">> \o onlyChild.segment,
     fullPath |-> onlyChild.fullPath,
     children |-> onlyChild.children,
     processes |-> onlyChild.processes,
     totalCount |-> onlyChild.totalCount,
     totalCpu |-> onlyChild.totalCpu,
     totalRss |-> onlyChild.totalRss]

\* A collapse that works top-down: it merges a node with its only child and
\* goes on below, without looking at the merged node again.
RECURSIVE collapseChains_TopDown(_)
collapseChains_TopDown(node) ==
    LET top == IF Len(node.children) = 1 /\ Len(node.processes) = 0
                  /\ node.segment # <<>>
               THEN merge(node, node.children[1].node)
               ELSE node
    IN  [top EXCEPT !.children =
            [i \in 1..Len(top.children) |->
                [key |-> top.children[i].key,
                 node |-> collapseChains_TopDown(top.children[i].node)]]]

RECURSIVE collapseChains(_)
collapseChains(node) ==
    LET newChildren == [i \in 1..Len(node.children) |->
                           [key |-> node.children[i].key,
                            node |-> collapseChains(node.children[i].node)]]
    IN  IF Len(newChildren) = 1 /\ Len(node.processes) = 0 /\ node.segment # <<>>
        THEN merge(node, newChildren[1].node)
        ELSE [node EXCEPT !.children = newChildren]

systemUsers ==
    { <<"root">>, <<"daemon">>, <<"nobody">>, <<"sys">>, <<"bin">>, <<"mail">>,
      <<"_", "windowserver">>, <<"_", "coreaudiod">>, <<"_", "spotlight">>,
      <<"_", "locationd">>, <<"_", "hidd">>, <<"_", "distnoted">>,
      <<"_", "nsurlsessiond">>, <<"_", "displaypolicyd">> }

isSystemUser(user) == user \in systemUsers \/ startsWith(user, <<"_">>)

\* isVisible with the two tests joined the wrong way: one passing is enough.
isVisible_EitherTest(proc, showSystem, showOthers, user) ==
    \/ ~(~showOthers /\ proc.user # user)
    \/ ~(~showSystem /\ isSystemUser(proc.user))

isVisible(proc, showSystem, showOthers, user) ==
    IF ~showOthers /\ proc.user # user THEN FALSE
    ELSE IF ~showSystem /\ isSystemUser(proc.user) THEN FALSE
    ELSE TRUE

\* getVisibleProcesses on the provider's fields.
getVisibleProcesses(snapshot, showSystem, showOthers, user) ==
    IF snapshot.defined
    THEN LET Visible(p) == isVisible(p, showSystem, showOthers, user)
         IN  SelectSeq(snapshot.processes, Visible)
    ELSE <<>>

\* update(snapshot) on a provider with the given flags and user.
update(snapshot, showSystem, showOthers, user) ==
    [snapshot |-> snapshot,
     trie |-> collapseChains(buildTrie(
                  getVisibleProcesses(snapshot, showSystem, showOthers, user)))]

\* The largest pid of the listings handed to the tree provider.
MaxTreePid == 3

\* The users that run the extension host.
HostUsers == { <<"me">>, <<"root">> }

\* What a listing can hold for one pid: one of two processes, by turns
\*   /System/Library/Frameworks/A of me    or  /System/Library/x of root,
\*   /System/Library/Frameworks/B of me    or  /usr/sbin/d of _svc,
\*   /usr/bin/C of me                      or  "node --flag" of other.
TreeProcs(pid) ==
    LET k == pid % 3
    IN  IF k = 1
        THEN { TreeProc(pid, <<"me">>, 2, 30, <<"A">>,
                        <<"/", "System", "/", "Library", "/", "Frameworks", "/", "A">>),
               TreeProc(pid, <<"root">>, 1, 10, <<"x">>,
                        <<"/", "System", "/", "Library", "/", "x", " ", "-d">>) }
        ELSE IF k = 2
        THEN { TreeProc(pid, <<"me">>, 3, 20, <<"B">>,
                        <<"/", "System", "/", "Library", "/", "Frameworks", "/", "B">>),
               TreeProc(pid, <<"_", "svc">>, 0, 10, <<"d">>,
                        <<"/", "usr", "/", "sbin", "/", "d">>) }
        ELSE { TreeProc(pid, <<"me">>, 1, 10, <<"C">>,
                        <<"/", "usr", "/", "bin", "/", "C">>),
               TreeProc(pid, <<"other">>, 5, 40, <<"node">>,
                        <<"node", " ", "--flag">>) }

RECURSIVE TreeListingsUpTo(_)
TreeListingsUpTo(n) ==
    IF n = 0 THEN { <<>> }
    ELSE LET rest == TreeListingsUpTo(n - 1)
         IN  rest \cup { Append(l, p) : l \in rest, p \in TreeProcs(n) }

TreeListings == TreeListingsUpTo(MaxTreePid)

\* The provider as activate() has constructed and configured it.
InitTree ==
    /\ PollerIdle
    /\ CtlIdle
    /\ PureIdle
    /\ shown = NoCall
    /\ treeSnapshot = Undefined
    /\ trie = Undefined
    /\ showSystemProcesses \in BOOLEAN
    /\ showOtherUsers \in BOOLEAN
    /\ currentUser \in HostUsers
    /\ treeOp = "new"

\* The poller's 'snapshot' event: treeProvider.update(snapshot).
Update ==
    /\ UNCHANGED <<pollerVars, ctlVars, pureVars>>
    /\ \E l \in TreeListings :
         LET u == update(buildSnapshot(l), showSystemProcesses, showOtherUsers,
                         currentUser)
         IN  /\ treeSnapshot' = u.snapshot
             /\ trie' = u.trie
    /\ treeOp' = "update"
    /\ shown' = NoCall
    /\ UNCHANGED <<showSystemProcesses, showOtherUsers, currentUser>>

SetShowSystemProcesses ==
    /\ UNCHANGED <<pollerVars, ctlVars, pureVars>>
    /\ \E value \in BOOLEAN : showSystemProcesses' = value
    /\ treeOp' = "setShowSystemProcesses"
    /\ UNCHANGED <<treeSnapshot, trie, showOtherUsers, currentUser, shown>>

SetShowOtherUsers ==
    /\ UNCHANGED <<pollerVars, ctlVars, pureVars>>
    /\ \E value \in BOOLEAN : showOtherUsers' = value
    /\ treeOp' = "setShowOtherUsers"
    /\ UNCHANGED <<treeSnapshot, trie, showSystemProcesses, currentUser, shown>>

NextTree ==
    \/ Update
    \/ SetShowSystemProcesses
    \/ SetShowOtherUsers

SpecTree == InitTree /\ [][NextTree]_vars

\* ------------------------------------------------ claims on the tree provider

\* The processes attached to a trie node or to a folder beneath it.
RECURSIVE Beneath(_)
Beneath(node) ==
    Range(node.processes) \cup
    UNION { Beneath(node.children[i].node) : i \in 1..Len(node.children) }

\* The folders beneath a trie node.
RECURSIVE FoldersOf(_)
FoldersOf(node) ==
    UNION { {node.children[i].node} \cup FoldersOf(node.children[i].node) :
            i \in 1..Len(node.children) }

\* The number of processes attached in the trie, at any depth.
RECURSIVE AttachedCount(_)
AttachedCount(node) ==
    Len(node.processes)
    + SumSeq([i \in 1..Len(node.children) |-> AttachedCount(node.children[i].node)])

\* The pids of the processes the tree served by getChildren holds.
ServedPids ==
    IF trie = Undefined THEN {}
    ELSE LET Attached(node) == Range(node.processes)
         IN  { p.pid : p \in Attached(trie) \cup
                              UNION { Attached(f) : f \in FoldersOf(trie) } }

\* The pids of the provider's snapshot that its present flags make visible.
VisiblePids ==
    { p.pid : p \in Range(getVisibleProcesses(treeSnapshot, showSystemProcesses,
                                              showOtherUsers, currentUser)) }

\* C17: right after setShowSystemProcesses or setShowOtherUsers returns, the
\* tree served holds exactly the processes of the current snapshot that the
\* new flag values make visible.
C17_FlagChangeRebuilds ==
    [][ treeOp' \in {"setShowSystemProcesses", "setShowOtherUsers"} =>
          ServedPids' = VisiblePids' ]_vars

\* C18: after update(), a process owned by a system account is in the tree
\* iff show-system-processes is set, whatever show-other-users is and whoever
\* runs the host.
C18_SystemFlagAlone ==
    [][ treeOp' = "update" =>
          \A p \in Range(treeSnapshot'.processes) :
              isSystemUser(p.user) =>
                  (p.pid \in ServedPids' <=> showSystemProcesses') ]_vars

\* C19: the processes update() places in the trie are exactly the processes
\* of its snapshot with (owner = invoking user or show-other-users) and
\* (owner not a system account or show-system-processes), each once; the
\* trie holds no folder without a process beneath it.
C19_FilterBeforeTrie ==
    [][ treeOp' = "update" =>
          /\ treeSnapshot'.defined
          /\ ServedPids' =
                { p.pid : p \in { q \in Range(treeSnapshot'.processes) :
                    /\ (q.user = currentUser' \/ showOtherUsers')
                    /\ (~isSystemUser(q.user) \/ showSystemProcesses') } }
          /\ AttachedCount(trie') = Cardinality(ServedPids')
          /\ \A f \in FoldersOf(trie') : AttachedCount(f) > 0
    ]_vars

\* An update() that left out one process for its owner being another user,
\* left out one for its owner being a system account, and kept a third.
C19_Witness ==
    /\ treeOp = "update"
    /\ \E p, q, r \in Range(treeSnapshot.processes) :
          /\ p.pid \notin ServedPids /\ ~isSystemUser(p.user) /\ p.user # currentUser
          /\ q.pid \notin ServedPids /\ isSystemUser(q.user)
          /\ r.pid \in ServedPids

SystemLibraryFrameworks == <<"System", "/", "Library", "/", "Frameworks">>
UsrBin == <<"usr", "/", "bin">>

\* The visible processes are /System/Library/Frameworks/A,
\* /System/Library/Frameworks/B and /usr/bin/C.
ThreePaths(node) ==
    /\ AttachedCount(node) = 3
    /\ { getPathSegments(p) : p \in Beneath(node) } =
          { <<<<"System">>, <<"Library">>, <<"Frameworks">>, <<"A">>>>,
            <<<<"System">>, <<"Library">>, <<"Frameworks">>, <<"B">>>>,
            <<<<"usr">>, <<"bin">>, <<"C">>>> }

\* The two top-level folders the three paths yield.
TwoFolders(node) ==
    /\ node.processes = <<>>
    /\ Len(node.children) = 2
    /\ { <<c.node.segment, Len(c.node.processes), Len(c.node.children)>> :
           c \in Range(node.children) } =
          { <<SystemLibraryFrameworks, 2, 0>>, <<UsrBin, 1, 0>> }

\* C20: after update(), no folder other than the root has exactly one child
\* folder and no process of its own; every folder's segment is the '/'-joined
\* chain of the segments merged into it, so that its parent's path, '/' and
\* its segment make its full path; the three paths of the example yield the
\* two folders System/Library/Frameworks (2 processes) and usr/bin (1).
C20_NoChainSurvives ==
    [][ treeOp' = "update" =>
          /\ \A f \in FoldersOf(trie') :
                /\ ~(Len(f.children) = 1 /\ Len(f.processes) = 0)
                /\ NonEmpty(f.segment)
                /\ \A i \in 1..Len(f.children) :
                      f.children[i].node.fullPath =
                          f.fullPath \o <<"/">> \o f.children[i].node.segment
          /\ \A i \in 1..Len(trie'.children) :
                /\ trie'.children[i].node.fullPath = trie'.children[i].node.segment
                /\ startsWith(trie'.children[i].node.segment, trie'.children[i].key)
          /\ ThreePaths(trie') => TwoFolders(trie')
    ]_vars

\* update() on the three paths of the example.
C20_Witness ==
    /\ treeOp = "update"
    /\ ThreePaths(trie)
    /\ TwoFolders(trie)

\* The sums of cpu and of rss over a set of processes.
RECURSIVE CpuSum(_)
CpuSum(procs) ==
    IF procs = {} THEN 0
    ELSE LET p == CHOOSE x \in procs : TRUE IN p.cpu + CpuSum(procs \ {p})

RECURSIVE RssSum(_)
RssSum(procs) ==
    IF procs = {} THEN 0
    ELSE LET p == CHOOSE x \in procs : TRUE IN p.rss + RssSum(procs \ {p})

\* The totals of a trie node are those of the processes at or beneath it.
TotalsRight(node) ==
    /\ node.totalCount = Cardinality(Beneath(node))
    /\ node.totalCount = AttachedCount(node)
    /\ node.totalCpu = CpuSum(Beneath(node))
    /\ node.totalRss = RssSum(Beneath(node))

\* C21: after update(), in the trie as built and in the trie as collapsed,
\* the count, cpu total and rss total of every folder and of the root are the
\* number of, and the sums of cpu and rss over, the processes attached to it
\* or beneath it; the root's count is the number of visible processes.
C21_TotalsAreRecursiveSums ==
    treeOp = "update" =>
        LET built == buildTrie(getVisibleProcesses(
                         treeSnapshot, showSystemProcesses, showOtherUsers,
                         currentUser))
        IN  /\ \A f \in {built} \cup FoldersOf(built) : TotalsRight(f)
            /\ \A f \in {trie} \cup FoldersOf(trie) : TotalsRight(f)
            /\ trie.totalCount = Cardinality(VisiblePids)
            /\ built.totalCount = Cardinality(VisiblePids)

\* update() built a collapsed folder that holds a process of its own and a
\* folder with a further process.
C21_Witness ==
    /\ treeOp = "update"
    /\ \E f \in FoldersOf(trie) :
          /\ Len(f.processes) >= 1
          /\ Len(f.children) >= 1
          /\ f.totalCount >= 2
          /\ f.totalCpu > CpuSum(Range(f.processes))
          /\ \E i \in 1..Len(f.segment) : f.segment[i] = "/"

\* ------------------------------------------- activate(): the kill commands

\* The controller operations the commands call: terminate, forceKill,
\* killGroup (terminateGroup) and killSubtree.
HostOps == {"terminatePid", "forceKillPid", "terminateGroup", "terminateSubtree"}

\* The listings the host is observed on: every set of pids, each pid as one
\* process with steady metrics.
HostListings ==
    { l \in Listings :
        \A i \in 1..Len(l) : l[i].cpu = 0 /\ l[i].command \in {"init", "node"} }

\* activate() has run: the poller is constructed with the default period and
\* started, no command is running.
InitHost ==
    /\ CtlIdle
    /\ TreeIdle
    /\ PureIdle
    /\ intervalHandle = <<1000>>
    /\ timers = [NoTimers EXCEPT ![1000] = 1]
    /\ polling = TRUE
    /\ paused = FALSE
    /\ currentSnapshot = Undefined
    /\ intervalMs = 1000
    /\ inflight = 1
    /\ emitted = <<>>
    /\ op = "start"
    /\ ret = FALSE
    /\ outcome = "none"
    /\ pollRes = "started"

\* A timer tick. Callbacks run only while no handler is running: between
\* commands, or while a command awaits its confirmation prompt.
HostTick ==
    /\ pc \in {"idle", "prompt"}
    /\ Tick

\* A callback that publishes by updating the snapshot object in place, so
\* that a command holding the object sees the new listing.
HostComplete_MutatesInPlace ==
    /\ pc \in {"idle", "prompt"}
    /\ inflight > 0
    /\ op' = "complete"
    /\ polling' = FALSE
    /\ inflight' = inflight - 1
    /\ pollRes' = "none"
    /\ \E o \in {"error", "throw", "ok"} :
         /\ outcome' = o
         /\ \E processes \in (IF o = "ok" THEN HostListings ELSE { <<>> }) :
              LET done == IF o = "ok" THEN publish(currentSnapshot, processes)
                          ELSE fail(currentSnapshot)
              IN  /\ currentSnapshot' = done.snapshot
                  /\ emitted' = done.emitted
                  /\ snap' = IF pc = "prompt" THEN done.snapshot ELSE snap
    /\ UNCHANGED <<intervalHandle, timers, paused, intervalMs, ret>>
    /\ UNCHANGED <<kop, pc, stack, result, todo, allOk, sent, last, failed,
                   prompts, answer, kret>>
    /\ UNCHANGED <<treeVars, pureVars>>

\* The execFile callback, between commands or while a prompt is pending.
HostComplete ==
    /\ pc \in {"idle", "prompt"}
    /\ Complete
    /\ currentSnapshot'.defined => currentSnapshot'.processes \in HostListings

\* A kill command on a process of the tree: the handler takes the process's
\* pid (or pgid) and, for killSubtree, poller.snapshot as it is now, and calls
\* the controller with the confirm setting.
KillCommand ==
    /\ UNCHANGED <<pollerVars, treeVars, pureVars>>
    /\ pc = "idle"
    /\ currentSnapshot.defined
    /\ snap' = currentSnapshot
    /\ \E name \in HostOps, confirm \in BOOLEAN, p \in Range(currentSnapshot.processes) :
         LET target == IF name \in GroupOps THEN p.pgid ELSE p.pid
         IN  /\ kop' = [name |-> name, target |-> target, confirm |-> confirm]
             /\ IF name = "terminateSubtree"
                THEN /\ pc' = "descend"
                     /\ stack' = <<target>>
                     /\ prompts' = 0
                ELSE /\ pc' = IF confirm THEN "prompt" ELSE "signal"
                     /\ stack' = <<>>
                     /\ prompts' = IF confirm THEN 1 ELSE 0
    /\ result' = <<>>
    /\ todo' = <<>>
    /\ allOk' = TRUE
    /\ sent' = <<>>
    /\ last' = NoSignal
    /\ failed' = {}
    /\ answer' = "none"
    /\ kret' = <<>>

\* The controller operation has returned ok to the handler:
\* if (ok) { sfx.trigger(SFXEvent.Fire); poller.refresh(); }
CommandReturn ==
    /\ UNCHANGED <<treeVars, pureVars>>
    /\ pc = "done"
    /\ op' = "command"
    /\ IF kret = <<TRUE>>
       THEN poll
       ELSE /\ pollRes' = "none"
            /\ UNCHANGED <<polling, inflight>>
    /\ UNCHANGED <<intervalHandle, timers, paused, currentSnapshot, intervalMs,
                   emitted, ret, outcome>>
    /\ pc' = "idle"
    /\ snap' = Undefined
    /\ kop' = [name |-> "none", target |-> 0, confirm |-> FALSE]
    /\ stack' = <<>>
    /\ result' = <<>>
    /\ todo' = <<>>
    /\ allOk' = TRUE
    /\ sent' = <<>>
    /\ last' = NoSignal
    /\ failed' = {}
    /\ prompts' = 0
    /\ answer' = "none"
    /\ kret' = <<>>

NextHost ==
    \/ HostTick
    \/ HostComplete
    \/ KillCommand
    \/ DescendStep
    \/ DescendDone
    \/ Answer
    \/ SendOne
    \/ SignalStep
    \/ CommandReturn

SpecHost == InitHost /\ [][NextHost]_vars

\* ------------------------------------------------- claims on the kill commands

\* C15: a kill-subtree command works on the snapshot that was poller.snapshot
\* when it was invoked: that snapshot stays as it was until the command
\* returns, whatever the poller publishes meanwhile; the pids signalled are
\* pids of that snapshot, and once the command has signalled they are exactly
\* the target and its descendants in it.
C15_ActsOnCapturedSnapshot ==
    /\ [][ pc = "idle" /\ pc' # "idle" => snap' = currentSnapshot ]_vars
    /\ [][ pc # "idle" /\ pc' # "idle" => snap' = snap ]_vars
    /\ [](Subtree =>
             /\ Range(sent) \subseteq Closure(snap, kop.target) \cup {kop.target}
             /\ pc = "done" /\ sent # <<>> =>
                   Range(sent) = Closure(snap, kop.target) \cup {kop.target})

\* A subtree kill was confirmed and has signalled after the poller had
\* published a snapshot with a further child of the target: the child was
\* not signalled.
C15_Witness ==
    /\ Subtree
    /\ pc = "done"
    /\ answer = Button(kop.name)
    /\ sent # <<>>
    /\ currentSnapshot # snap
    /\ \E q \in PidsOf(currentSnapshot) \ PidsOf(snap) :
          /\ RecOf(currentSnapshot, q).ppid = kop.target
          /\ q \notin Range(sent)

\* C16: every kill command whose controller operation sent a signal to the OS
\* is followed by a refresh request to the poller, also when the operation
\* returns false because another of its signal calls failed (the operation's
\* last signal call is the one known to have been sent: it succeeded).
C16_RefreshAfterSignals ==
    [][ pc = "done" /\ pc' = "idle" /\ sent # <<>> /\ last.outcome = "ok" =>
          pollRes' \in {"started", "skipped"} ]_vars

\* --------------------------------------------------- diffSnapshots, applied

\* The largest pid of the snapshots that are diffed.
MaxDiffPid == 2

\* What a snapshot can hold for one pid: a process as first seen; the same
\* process with another cpu, rss or etime value; another process that has
\* taken over the pid (other command, owner and parent), with the same
\* metrics or with others.
DiffProcs(pid) ==
    { Proc(pid, 1, pid, "me", 0, 20, "00:05", "node"),
      Proc(pid, 1, pid, "me", 1, 20, "00:05", "node"),
      Proc(pid, 1, pid, "me", 0, 30, "00:05", "node"),
      Proc(pid, 1, pid, "me", 0, 20, "00:06", "node"),
      Proc(pid, 0, pid, "root", 0, 20, "00:05", "sh"),
      Proc(pid, 0, pid, "root", 1, 20, "00:01", "sh") }

RECURSIVE DiffListingsUpTo(_)
DiffListingsUpTo(n) ==
    IF n = 0 THEN { <<>> }
    ELSE LET rest == DiffListingsUpTo(n - 1)
         IN  rest \cup { Append(l, p) : l \in rest, p \in DiffProcs(n) }

DiffSnapshots == { buildSnapshot(l) : l \in DiffListingsUpTo(MaxDiffPid) }

\* An older snapshot (or none yet) and a newer one.
InitDiff ==
    /\ PollerIdle
    /\ CtlIdle
    /\ TreeIdle
    /\ fn = "none"
    /\ input \in (DiffSnapshots \cup {Undefined}) \X DiffSnapshots
    /\ output = <<>>

\* events = diffSnapshots(oldSnap, newSnap)
Diff ==
    /\ UNCHANGED <<pollerVars, ctlVars, treeVars>>
    /\ fn = "none"
    /\ fn' = "diffSnapshots"
    /\ output' = <<diffSnapshots(input[1], input[2])>>
    /\ UNCHANGED input

\* The same two snapshots diffed the other way round.
DiffBack ==
    /\ UNCHANGED <<pollerVars, ctlVars, treeVars>>
    /\ fn = "diffSnapshots"
    /\ input[1].defined
    /\ fn' = "diffSnapshots both ways"
    /\ output' = Append(output, diffSnapshots(input[2], input[1]))
    /\ UNCHANGED input

NextDiff ==
    \/ Diff
    \/ DiffBack

SpecDiff == InitDiff /\ [][NextDiff]_vars

\* ------------------------------------------------- claims on diffSnapshots

\* The events of one type about one pid.
EventsOn(events, type, pid) ==
    SelectSeq(events, LAMBDA e : e.type = type /\ e.process.pid = pid)

\* The pids the events of one type are about.
PidsIn(events, type) == { e.process.pid : e \in { x \in Range(events) : x.type = type } }

\* The pid passed from one process to another: command, owner or parent differ.
Reused(old, new) ==
    old.command # new.command \/ old.user # new.user \/ old.ppid # new.ppid

\* C22: a pid that is held by a different process in the newer snapshot
\* (other command, owner or parent) is reported as Removed with the old
\* record and Added with the new one, and not as Updated.
C22_ReusedPidIsDistinct ==
    fn = "diffSnapshots" /\ input[1].defined =>
        \A pid \in PidsOf(input[1]) \cap PidsOf(input[2]) :
            LET old == RecOf(input[1], pid)
                new == RecOf(input[2], pid)
            IN  Reused(old, new) =>
                    /\ EventsOn(output[1], "removed", pid) = <<Removed(old)>>
                    /\ EventsOn(output[1], "added", pid) = <<Added(new)>>
                    /\ EventsOn(output[1], "updated", pid) = <<>>

\* C23: for a pid in both snapshots the diff holds one Updated event, with
\* the new record and the previous one, iff cpu, rss or etime differ, and no
\* event otherwise; it holds one Added event for each pid only in the newer
\* snapshot, one Removed event for each pid only in the older one, and
\* nothing else.
C23_UpdatedIffMetricsDiffer ==
    fn = "diffSnapshots" /\ input[1].defined =>
        LET A == input[1]
            B == input[2]
            events == output[1]
        IN  /\ \A pid \in PidsOf(A) \cap PidsOf(B) :
                  LET old == RecOf(A, pid)
                      new == RecOf(B, pid)
                  IN  /\ EventsOn(events, "updated", pid) =
                            (IF old.cpu # new.cpu \/ old.rss # new.rss
                                \/ old.etime # new.etime
                             THEN <<Updated(new, old)>> ELSE <<>>)
                      /\ EventsOn(events, "added", pid) = <<>>
                      /\ EventsOn(events, "removed", pid) = <<>>
            /\ \A pid \in PidsOf(B) \ PidsOf(A) :
                  /\ EventsOn(events, "added", pid) = <<Added(RecOf(B, pid))>>
                  /\ EventsOn(events, "updated", pid) = <<>>
                  /\ EventsOn(events, "removed", pid) = <<>>
            /\ \A pid \in PidsOf(A) \ PidsOf(B) :
                  /\ EventsOn(events, "removed", pid) = <<Removed(RecOf(A, pid))>>
                  /\ EventsOn(events, "updated", pid) = <<>>
                  /\ EventsOn(events, "added", pid) = <<>>
            /\ \A e \in Range(events) :
                  /\ e.type \in {"added", "removed", "updated"}
                  /\ e.process.pid \in PidsOf(A) \cup PidsOf(B)

\* One pid with another rss value was reported as Updated, the other pid,
\* unchanged, was not reported.
C23_Witness ==
    /\ fn = "diffSnapshots"
    /\ input[1].defined
    /\ Len(output[1]) = 1
    /\ output[1][1].type = "updated"
    /\ output[1][1].previous[1].rss # output[1][1].process.rss
    /\ output[1][1].previous[1].cpu = output[1][1].process.cpu
    /\ Cardinality(PidsOf(input[1]) \cap PidsOf(input[2])) = 2

\* C24: the pids of the Removed events of the diff from A to B are the pids
\* of the Added events of the diff from B to A, and are the pids of A that
\* B lacks.
C24_RemovedMirrorsAdded ==
    fn = "diffSnapshots both ways" =>
        /\ PidsIn(output[1], "removed") = PidsIn(output[2], "added")
        /\ PidsIn(output[1], "removed") = PidsOf(input[1]) \ PidsOf(input[2])
        /\ PidsIn(output[2], "removed") = PidsIn(output[1], "added")

\* Two snapshots that each hold a pid the other lacks, diffed both ways.
C24_Witness ==
    /\ fn = "diffSnapshots both ways"
    /\ PidsOf(input[1]) \ PidsOf(input[2]) # {}
    /\ PidsOf(input[2]) \ PidsOf(input[1]) # {}
    /\ PidsIn(output[1], "removed") # {}
    /\ PidsIn(output[2], "removed") # {}

\* -------------------------------------------- claims on the first snapshot

\* One Added event per record, in the order of the listing.
AllAdded(processes) == [i \in 1..Len(processes) |-> Added(processes[i])]

\* C25: the diff of no snapshot against a snapshot S is one Added event per
\* record of S and nothing else, so the successful poll of a poller that has
\* no snapshot yet reports every listed process as Added (and emits no
\* 'events' at all when the listing is empty).
C25_FirstPollAllAdded ==
    [][ op' = "complete" /\ outcome' = "ok" /\ ~currentSnapshot.defined =>
          LET S == currentSnapshot'
              events == diffSnapshots(Undefined, S)
          IN  /\ events = AllAdded(S.processes)
              /\ Len(events) = Cardinality(PidsOf(S))
              /\ \A e \in Range(events) : e.type = "added"
              /\ IF S.processes = <<>>
                 THEN Len(emitted') = 1 /\ emitted'[1].type = "snapshot"
                 ELSE /\ Len(emitted') = 2
                      /\ emitted'[1].type = "events"
                      /\ emitted'[1].payload = events
    ]_vars

\* A completed poll that reported each of several listed processes as Added.
C25_Witness ==
    /\ op = "complete"
    /\ outcome = "ok"
    /\ Len(emitted) = 2
    /\ Len(currentSnapshot.processes) >= 2
    /\ emitted[1].payload = AllAdded(currentSnapshot.processes)

\* ------------------------------------------------ claims on the poll period

\* The documented minimum of takeitoutback.refreshIntervalMs.
MinIntervalMs == 500

\* C26: no timer is ever armed with a period below the floor of 500 ms,
\* whatever value the constructor or setInterval was given.
C26_IntervalFloor ==
    \A ms \in Intervals : timers[ms] > 0 => ms >= MinIntervalMs

\* ------------------------------------------------------------- parseEtime

\* An etime string is the sequence of its characters.
Digits == <<"0", "1", "2", "3", "4", "5", "6", "7", "8", "9">>

isDigit(ch) == ch \in Range(Digits)

digitValue(ch) == (CHOOSE i \in 1..10 : Digits[i] = ch) - 1

\* The number written by a run of decimal digits.
RECURSIVE decimal(_)
decimal(digs) ==
    IF digs = <<>> THEN 0
    ELSE decimal(SubSeq(digs, 1, Len(digs) - 1)) * 10 + digitValue(digs[Len(digs)])

\* str.trim()
RECURSIVE trim(_)
trim(str) ==
    IF str = <<>> THEN str
    ELSE IF Head(str) = " " THEN trim(Tail(str))
    ELSE IF str[Len(str)] = " " THEN trim(SubSeq(str, 1, Len(str) - 1))
    ELSE str

\* str.indexOf(ch): the 0-based place of the first ch, -1 when there is none.
indexOf(str, ch) ==
    IF \A i \in 1..Len(str) : str[i] # ch THEN -1
    ELSE (CHOOSE k \in 1..Len(str) :
              str[k] = ch /\ \A j \in 1..(k - 1) : str[j] # ch) - 1

\* str.substring(from, to), 0-based, to excluded.
substring(str, from, to) == SubSeq(str, from + 1, to)

\* The longest run of digits a string starts with.
RECURSIVE leadingDigits(_)
leadingDigits(str) ==
    IF str = <<>> \/ ~isDigit(Head(str)) THEN <<>>
    ELSE <<Head(str)>> \o leadingDigits(Tail(str))

\* parseInt(str, 10): blanks skipped, an optional sign, then the leading
\* digits; NaN when there are none. Whatever follows the digits is ignored.
parseInt(str) ==
    LET s == trim(str)
        signed == s # <<>> /\ Head(s) \in {"-", "+"}
        digs == leadingDigits(IF signed THEN Tail(s) ELSE s)
    IN  IF digs = <<>>
        THEN [nan |-> TRUE, value |-> 0]
        ELSE [nan |-> FALSE,
              value |-> IF signed /\ Head(s) = "-" THEN 0 - decimal(digs) ELSE decimal(digs)]

\* parseInt(p, 10) || 0: NaN and 0 are both falsy.
parseIntOrZero(str) ==
    LET n == parseInt(str)
    IN  IF n.nan \/ n.value = 0 THEN 0 ELSE n.value

\* A parse that reads two parts as hours and minutes.
parseEtime_TwoPartsAreHours(etime) ==
    LET trimmed == trim(etime)
        dashIdx == indexOf(trimmed, "-")
        days == IF dashIdx # -1 THEN parseIntOrZero(substring(trimmed, 0, dashIdx)) ELSE 0
        rest == IF dashIdx # -1 THEN substring(trimmed, dashIdx + 1, Len(trimmed))
                ELSE trimmed
        pieces == split(rest, ":")
        parts == [i \in 1..Len(pieces) |-> parseIntOrZero(pieces[i])]
        hours == IF Len(parts) = 3 THEN parts[1]
                 ELSE IF Len(parts) = 2 THEN parts[1] ELSE 0
        minutes == IF Len(parts) = 3 THEN parts[2]
                   ELSE IF Len(parts) = 2 THEN parts[2] ELSE 0
        seconds == IF Len(parts) = 3 THEN parts[3]
                   ELSE IF Len(parts) = 1 THEN parts[1] ELSE 0
    IN  days * 86400 + hours * 3600 + minutes * 60 + seconds

\* A parse that takes the day as an hour.
parseEtime_DayIsAnHour(etime) ==
    LET trimmed == trim(etime)
        dashIdx == indexOf(trimmed, "-")
        days == IF dashIdx # -1 THEN parseIntOrZero(substring(trimmed, 0, dashIdx)) ELSE 0
        rest == IF dashIdx # -1 THEN substring(trimmed, dashIdx + 1, Len(trimmed))
                ELSE trimmed
        pieces == split(rest, ":")
        parts == [i \in 1..Len(pieces) |-> parseIntOrZero(pieces[i])]
        hours == IF Len(parts) = 3 THEN parts[1] ELSE 0
        minutes == IF Len(parts) = 3 THEN parts[2]
                   ELSE IF Len(parts) = 2 THEN parts[1] ELSE 0
        seconds == IF Len(parts) = 3 THEN parts[3]
                   ELSE IF Len(parts) = 2 THEN parts[2]
                   ELSE IF Len(parts) = 1 THEN parts[1] ELSE 0
    IN  days * 3600 + hours * 3600 + minutes * 60 + seconds

parseEtime(etime) ==
    LET trimmed == trim(etime)
        dashIdx == indexOf(trimmed, "-")
        days == IF dashIdx # -1 THEN parseIntOrZero(substring(trimmed, 0, dashIdx)) ELSE 0
        rest == IF dashIdx # -1 THEN substring(trimmed, dashIdx + 1, Len(trimmed))
                ELSE trimmed
        pieces == split(rest, ":")
        parts == [i \in 1..Len(pieces) |-> parseIntOrZero(pieces[i])]
        hours == IF Len(parts) = 3 THEN parts[1] ELSE 0
        minutes == IF Len(parts) = 3 THEN parts[2]
                   ELSE IF Len(parts) = 2 THEN parts[1] ELSE 0
        seconds == IF Len(parts) = 3 THEN parts[3]
                   ELSE IF Len(parts) = 2 THEN parts[2]
                   ELSE IF Len(parts) = 1 THEN parts[1] ELSE 0
    IN  days * 86400 + hours * 3600 + minutes * 60 + seconds

\* The most parts between colons of the strings that are parsed.
MaxEtimeParts == 3

\* What stands between the colons: nothing, a number, letters, a number
\* followed by a letter.
EtimeComponents == { <<>>, <<"5">>, <<"3", "0">>, <<"x", "x">>, <<"5", "x">> }

\* What stands before the dash, the dash included.
EtimeDays == { <<>>, <<"-">>, <<"2", "-">>, <<"x", "x", "-">> }

RECURSIVE EtimeClocks(_)
EtimeClocks(n) ==
    IF n = 1 THEN EtimeComponents
    ELSE EtimeClocks(n - 1)
         \cup { c \o <<":">> \o p : c \in EtimeClocks(n - 1), p \in EtimeComponents }

\* Strings `ps` prints in its etime column.
EtimeOfPs ==
    { <<"4", "5">>,
      <<"0", "2", ":", "3", "0">>,
      <<"0", "1", ":", "0", "2", ":", "0", "3">>,
      <<"x", "x", ":", "0", "5">>,
      <<"2", "-", "0", "3", ":", "0", "4", ":", "0", "5">> }

Etimes ==
    LET bare == { d \o c : d \in EtimeDays, c \in EtimeClocks(MaxEtimeParts) } \cup EtimeOfPs
    IN  bare \cup { <<" ">> \o e \o <<" ">> : e \in bare }

InitEtime ==
    /\ PollerIdle
    /\ CtlIdle
    /\ TreeIdle
    /\ fn = "none"
    /\ input \in { <<e>> : e \in Etimes }
    /\ output = <<>>

\* elapsedSec = parseEtime(etime)
ParseEtime ==
    /\ UNCHANGED <<pollerVars, ctlVars, treeVars>>
    /\ fn = "none"
    /\ fn' = "parseEtime"
    /\ output' = <<parseEtime(input[1])>>
    /\ UNCHANGED input

NextEtime ==
    \/ ParseEtime

SpecEtime == InitEtime /\ [][NextEtime]_vars

\* --------------------------------------------------- claims on parseEtime

\* The string without the blanks around it, cut at its first dash and at
\* its colons.
DaysPart(token) ==
    LET t == trim(token)
    IN  IF "-" \in Range(t) THEN <<split(t, "-")[1]>> ELSE <<>>

ClockParts(token) ==
    LET t == trim(token)
    IN  IF "-" \in Range(t)
        THEN split(SubSeq(t, Len(split(t, "-")[1]) + 2, Len(t)), ":")
        ELSE split(t, ":")

\* A component is numeric (digits only), missing (empty) or non-numeric
\* (no digit in it).
Numeric(comp) == comp # <<>> /\ \A ch \in Range(comp) : isDigit(ch)
NonNumeric(comp) == \A ch \in Range(comp) : ~isDigit(ch) /\ ch \notin {"-", ":", " "}

\* ss, mm:ss, hh:mm:ss, and these after dd-.
WellFormed(token) ==
    /\ Len(ClockParts(token)) \in 1..3
    /\ \A c \in Range(ClockParts(token)) \cup Range(DaysPart(token)) :
           Numeric(c) \/ NonNumeric(c)

\* A numeric component counts as its number, any other as 0.
Counts(comp) == IF Numeric(comp) THEN decimal(comp) ELSE 0

\* The i-th component from the right (1: seconds, 2: minutes, 3: hours).
FromRight(token, i) ==
    LET cs == ClockParts(token)
    IN  IF i <= Len(cs) THEN Counts(cs[Len(cs) + 1 - i]) ELSE 0

Elapsed(token) ==
    (IF DaysPart(token) = <<>> THEN 0 ELSE Counts(DaysPart(token)[1])) * 86400
    + FromRight(token, 3) * 3600 + FromRight(token, 2) * 60 + FromRight(token, 1)

\* C27: parseEtime returns a number for every string, and for a string of
\* the forms ss, mm:ss, hh:mm:ss, dd-hh:mm:ss it returns
\* days*86400 + hours*3600 + minutes*60 + seconds with a non-numeric or
\* missing component counted as 0: "45" gives 45, "02:30" gives 150,
\* "01:02:03" gives 3723, "xx:05" gives 5.
C27_ParseEtimeTolerant ==
    fn = "parseEtime" =>
        /\ output[1] \in Nat
        /\ WellFormed(input[1]) => output[1] = Elapsed(input[1])
        /\ input[1] = <<"4", "5">> => output[1] = 45
        /\ input[1] = <<"0", "2", ":", "3", "0">> => output[1] = 150
        /\ input[1] = <<"0", "1", ":", "0", "2", ":", "0", "3">> => output[1] = 3723
        /\ input[1] = <<"x", "x", ":", "0", "5">> => output[1] = 5

\* "xx:05" was parsed.
C27_Witness ==
    /\ fn = "parseEtime"
    /\ input[1] = <<"x", "x", ":", "0", "5">>
    /\ WellFormed(input[1])
    /\ output = <<5>>

\* C28: parseEtime maps "2-03:04:05" to 183845 seconds
\* (2 days, 3 hours, 4 minutes, 5 seconds).
C28_DaysToken ==
    fn = "parseEtime" /\ input[1] = <<"2", "-", "0", "3", ":", "0", "4", ":", "0", "5">>
        => output[1] = 183845

\* "2-03:04:05" was parsed.
C28_Witness ==
    /\ fn = "parseEtime"
    /\ input = << <<"2", "-", "0", "3", ":", "0", "4", ":", "0", "5">> >>

\* C28 as stated: parseEtime maps "2-03:04:05" to 187445 seconds.
C28_DaysToken_AsStated ==
    fn = "parseEtime" /\ input[1] = <<"2", "-", "0", "3", ":", "0", "4", ":", "0", "5">>
        => output[1] = 187445

\* ------------------------------------------------------------ getChildren

FolderNode(segment, pathPrefix, processCount, totalCpu, totalRss) ==
    [kind |-> "folder", id |-> <<"folder:">> \o pathPrefix, segment |-> segment,
     pathPrefix |-> pathPrefix, processCount |-> processCount,
     totalCpu |-> totalCpu, totalRss |-> totalRss]

ProcessNode(proc) == [kind |-> "process", id |-> <<"proc:", proc.pid>>, proc |-> proc]

\* One more keyed item placed in a list sorted by descending key: after the
\* items that do not sort behind it (Array.prototype.sort is stable).
RECURSIVE insertDescending(_, _)
insertDescending(sorted, item) ==
    IF sorted = <<>> THEN <<item>>
    ELSE IF Head(sorted).key >= item.key
         THEN <<Head(sorted)>> \o insertDescending(Tail(sorted), item)
         ELSE <<item>> \o sorted

\* [...items].sort((a, b) => b.key - a.key), the items given with their keys.
RECURSIVE sortDescending(_)
sortDescending(keyed) ==
    IF keyed = <<>> THEN <<>>
    ELSE insertDescending(sortDescending(SubSeq(keyed, 1, Len(keyed) - 1)),
                          keyed[Len(keyed)])

getTrieNodeChildren(node) ==
    LET byCount == sortDescending([i \in 1..Len(node.children) |->
                       [key |-> node.children[i].node.totalCount,
                        value |-> node.children[i].node]])
        folders == [i \in 1..Len(byCount) |->
                       LET c == byCount[i].value
                       IN  FolderNode(c.segment, c.fullPath, c.totalCount,
                                      c.totalCpu, c.totalRss)]
        byCpu == sortDescending([i \in 1..Len(node.processes) |->
                       [key |-> node.processes[i].cpu, value |-> node.processes[i]]])
        procs == [i \in 1..Len(byCpu) |-> ProcessNode(byCpu[i].value)]
    IN  folders \o procs

\* A search that takes a child whose path the target merely starts with.
RECURSIVE findInNode_NoSlash(_, _)
findInNode_NoSlash(node, target) ==
    LET hit(child) == child.fullPath = target \/ startsWith(target, child.fullPath)
        hits == SelectSeq([i \in 1..Len(node.children) |-> node.children[i].node], hit)
    IN  IF hits = <<>> THEN Undefined
        ELSE IF hits[1].fullPath = target THEN hits[1]
        ELSE findInNode_NoSlash(hits[1], target)

\* The loop returns at the first child that is the target or whose path
\* followed by '/' the target starts with.
RECURSIVE findInNode(_, _)
findInNode(node, target) ==
    LET hit(child) == child.fullPath = target
                      \/ startsWith(target, child.fullPath \o <<"/">>)
        hits == SelectSeq([i \in 1..Len(node.children) |-> node.children[i].node], hit)
    IN  IF hits = <<>> THEN Undefined
        ELSE IF hits[1].fullPath = target THEN hits[1]
        ELSE findInNode(hits[1], target)

findTrieNode(root, pathPrefix) ==
    IF root # Undefined THEN findInNode(root, pathPrefix) ELSE Undefined

getChildren(root, element) ==
    IF root = Undefined THEN <<>>
    ELSE IF element.kind = "undefined" THEN getTrieNodeChildren(root)
    ELSE IF element.kind = "folder"
         THEN LET trieNode == findTrieNode(root, element.pathPrefix)
              IN  IF trieNode # Undefined THEN getTrieNodeChildren(trieNode) ELSE <<>>
    ELSE <<>>

\* The largest pid of the listings the view is built from.
MaxViewPid == 3

\* What a listing can hold for one pid, all owned by one user, by turns
\*   /s/l/A      or  /s/l/f/D,
\*   /s/lf/B     or  /s/C,
\*   /s/l/f/F    or  node.
\* A string is the sequence of its characters: the folders l and lf share
\* a prefix.
ViewProcs(pid) ==
    LET k == pid % 3
    IN  IF k = 1
        THEN { TreeProc(pid, <<"me">>, 2, 30, <<"A">>, <<"/", "s", "/", "l", "/", "A">>),
               TreeProc(pid, <<"me">>, 1, 10, <<"D">>,
                        <<"/", "s", "/", "l", "/", "f", "/", "D">>) }
        ELSE IF k = 2
        THEN { TreeProc(pid, <<"me">>, 3, 20, <<"B">>,
                        <<"/", "s", "/", "l", "f", "/", "B">>),
               TreeProc(pid, <<"me">>, 1, 10, <<"C">>, <<"/", "s", "/", "C">>) }
        ELSE { TreeProc(pid, <<"me">>, 4, 10, <<"F">>,
                        <<"/", "s", "/", "l", "/", "f", "/", "F">>),
               TreeProc(pid, <<"me">>, 5, 40, <<"n", "o", "d", "e">>,
                        <<"n", "o", "d", "e", " ", "-", "v">>) }

RECURSIVE ViewListingsUpTo(_)
ViewListingsUpTo(n) ==
    IF n = 0 THEN { <<>> }
    ELSE LET rest == ViewListingsUpTo(n - 1)
         IN  rest \cup { Append(l, p) : l \in rest, p \in ViewProcs(n) }

ViewListings == ViewListingsUpTo(MaxViewPid)

\* The provider as activate() has constructed and configured it, its view
\* not yet asked for anything.
InitView ==
    /\ PollerIdle
    /\ CtlIdle
    /\ PureIdle
    /\ shown = NoCall
    /\ treeSnapshot = Undefined
    /\ trie = Undefined
    /\ showSystemProcesses \in BOOLEAN
    /\ showOtherUsers \in BOOLEAN
    /\ currentUser \in HostUsers
    /\ treeOp = "new"

\* treeProvider.update(snapshot); the change event makes the view drop what
\* it was given and ask again from the root.
UpdateView ==
    /\ UNCHANGED <<pollerVars, ctlVars, pureVars>>
    /\ \E l \in ViewListings :
         LET u == update(buildSnapshot(l), showSystemProcesses, showOtherUsers,
                         currentUser)
         IN  /\ treeSnapshot' = u.snapshot
             /\ trie' = u.trie
    /\ treeOp' = "update"
    /\ shown' = NoCall
    /\ UNCHANGED <<showSystemProcesses, showOtherUsers, currentUser>>

\* The view asks for the root's children, or for those of an element it was
\* given by the call before.
GetChildren ==
    /\ UNCHANGED <<pollerVars, ctlVars, pureVars>>
    /\ \E element \in {NoElement} \cup Range(shown.children) :
         shown' = [called |-> TRUE, element |-> element,
                   children |-> getChildren(trie, element)]
    /\ treeOp' = "getChildren"
    /\ UNCHANGED <<treeSnapshot, trie, showSystemProcesses, showOtherUsers,
                   currentUser>>

NextView ==
    \/ UpdateView
    \/ GetChildren

SpecView == InitView /\ [][NextView]_vars

\* --------------------------------------------------- claims on getChildren

\* The pids of the ProcessNodes met when the tree is walked from an element
\* down, in the order of the walk, one entry per ProcessNode.
RECURSIVE WalkedPids(_)
WalkedPids(element) ==
    LET children == getChildren(trie, element)
        below == [i \in 1..Len(children) |->
                     IF children[i].kind = "process" THEN <<children[i].proc.pid>>
                     ELSE WalkedPids(children[i])]
    IN  IF children = <<>> THEN <<>>
        ELSE [i \in 1..SumSeq([j \in 1..Len(below) |-> Len(below[j])]) |->
                 LET k == CHOOSE k \in 1..Len(below) :
                              /\ SumSeq([j \in 1..(k - 1) |-> Len(below[j])]) < i
                              /\ i <= SumSeq([j \in 1..k |-> Len(below[j])])
                 IN  below[k][i - SumSeq([j \in 1..(k - 1) |-> Len(below[j])])]]

\* The FolderNodes met when the tree is walked from an element down.
RECURSIVE WalkedFolders(_)
WalkedFolders(element) ==
    LET children == getChildren(trie, element)
        folders == { children[i] : i \in { j \in 1..Len(children) :
                                             children[j].kind = "folder" } }
    IN  folders \cup UNION { WalkedFolders(f) : f \in folders }

\* The number of folders of the trie, at any depth.
RECURSIVE FolderCount(_)
FolderCount(node) ==
    SumSeq([i \in 1..Len(node.children) |-> 1 + FolderCount(node.children[i].node)])

\* The FolderNode is the view of this trie node.
ViewOf(f, node) ==
    /\ f.pathPrefix = node.fullPath
    /\ f.segment = node.segment
    /\ f.processCount = node.totalCount
    /\ f.processCount = Cardinality(Beneath(node))

\* C29: once the trie is built, the walk from the root with getChildren
\* meets every visible process exactly once as a ProcessNode; every
\* FolderNode handed out resolves through its pathPrefix to its own trie
\* node, whose children, never none, are what expanding it returns; full
\* paths, and so folder ids, are unique - for collapsed folders and for
\* sibling folders whose names share a prefix as well.
C29_WalkReachesAll ==
    trie # Undefined =>
        /\ Len(WalkedPids(NoElement)) = Cardinality(VisiblePids)
        /\ Range(WalkedPids(NoElement)) = VisiblePids
        /\ Cardinality({ f.fullPath : f \in FoldersOf(trie) }) = FolderCount(trie)
        /\ Cardinality({ f.id : f \in WalkedFolders(NoElement) }) = FolderCount(trie)
        /\ \A f \in WalkedFolders(NoElement) :
              /\ findTrieNode(trie, f.pathPrefix) # Undefined
              /\ findTrieNode(trie, f.pathPrefix) \in FoldersOf(trie)
              /\ ViewOf(f, findTrieNode(trie, f.pathPrefix))
              /\ getChildren(trie, f) # <<>>
              /\ getChildren(trie, f) =
                    getTrieNodeChildren(CHOOSE n \in FoldersOf(trie) :
                                            n.fullPath = f.pathPrefix)
              /\ { c.proc.pid : c \in { x \in Range(getChildren(trie, f)) :
                                          x.kind = "process" } }
                    \subseteq { p.pid : p \in Beneath(findTrieNode(trie, f.pathPrefix)) }
        /\ (shown.called /\ shown.element.kind = "folder") =>
              /\ shown.children # <<>>
              /\ shown.element \in WalkedFolders(NoElement)
        /\ (shown.called /\ shown.element.kind = "process") => shown.children = <<>>

\* The view has expanded the folder lf, whose sibling l, made first, holds a
\* process and the folder f.
C29_Witness ==
    /\ shown.called
    /\ shown.element.kind = "folder"
    /\ shown.element.pathPrefix = <<"s", "/", "l", "f">>
    /\ shown.children # <<>>
    /\ \E f \in FoldersOf(trie) :
          /\ f.fullPath = <<"s", "/", "l">>
          /\ f.processes # <<>>
          /\ f.children # <<>>
    /\ Cardinality(VisiblePids) = 3

====
